---- MODULE Spec2Model ----
(***************************************************************************)
(* Model of the Wavefront -> Grafana alert translation of                  *)
(* wavefront-grafana-migrator.py: QueryTranslator and GrafanaAlertBuilder. *)
(*                                                                         *)
(* Python strings are modelled as sequences of one-character strings, and  *)
(* the regular expressions of the source are modelled by operators that    *)
(* scan those sequences the way the re module does (leftmost match, greedy *)
(* quantifiers).                                                           *)
(***************************************************************************)
EXTENDS Integers, Sequences, FiniteSets, TLC

\* build_alert: its arguments, where the call stands, its locals and its outcome
VARIABLES wf_alert, datasource_type, pc, queries, threshold_info, data, alert_rule, raised

\* the outcome of the call of build_alert before the last one
VARIABLE previous

\* QueryTranslator.translate: its arguments, where the call stands and its result
VARIABLES wql_query, target, translated, tpc

\* MigrationOrchestrator.migrate_alerts: the batch, the folder, the place of
\* the loop, its counters, and the calls it has made so far
VARIABLES alerts, folder_uid, alert_index, success_count, failed_alerts, processed,
          import_calls, mpc

builderVars == <<wf_alert, datasource_type, pc, queries, threshold_info, data,
                 alert_rule, raised, previous>>

translatorVars == <<wql_query, target, translated, tpc>>

migrateVars == <<alerts, folder_uid, alert_index, success_count, failed_alerts, processed,
                 import_calls, mpc>>

\* several calls of build_alert in flight on one builder: the record each call
\* was given, the locals of each call, and whether a call has taken a step
\* while another was between its entry and its end
VARIABLES records, frames, overlapped

parallelVars == <<records, frames, overlapped>>

\* GrafanaDashboardBuilder.build_dashboard: the Wavefront dashboard, where the
\* call stands, the panels of the dashboard it returns and the builder's
\* panel_id_counter
VARIABLES wf_dashboard, dpc, panels, panel_id_counter

dashboardVars == <<wf_dashboard, dpc, panels, panel_id_counter>>

\* delete-alerts.py, delete_alerts: the uids to delete, the alert rules the
\* Grafana server holds, the place of the loop, where delete_alert stands, the
\* dict results, what each call of delete_alert returned, and the requests
\* sent so far with their answers
VARIABLES uids, store, uid_index, xpc, results, returns, requests

deleteVars == <<uids, store, uid_index, xpc, results, returns, requests>>

\* GrafanaImporter.delete_alerts_by_folder: the alert rules the Grafana
\* server holds and held when the call began, the folder name, the list
\* get_alert_rules returned, the place of the loop, deleted_count, the DELETE
\* requests sent so far with their answers, and where the call stands
VARIABLES grafana_rules, rules_before, folder_name, alert_rules, rule_index,
          deleted_count, deletions, fpc

folderVars == <<grafana_rules, rules_before, folder_name, alert_rules, rule_index,
                deleted_count, deletions, fpc>>

toolVars == <<parallelVars, dashboardVars, deleteVars, folderVars>>

vars == <<builderVars, translatorVars, migrateVars, toolVars>>

(***************************************************************************)
(* Characters and elementary string functions                              *)
(***************************************************************************)
LowerLetters ==
  <<"a","b","c","d","e","f","g","h","i","j","k","l","m",
    "n","o","p","q","r","s","t","u","v","w","x","y","z">>

UpperLetters ==
  <<"A","B","C","D","E","F","G","H","I","J","K","L","M",
    "N","O","P","Q","R","S","T","U","V","W","X","Y","Z">>

DigitChars == <<"0","1","2","3","4","5","6","7","8","9">>

Range(f) == {f[i] : i \in DOMAIN f}

Digit == Range(DigitChars)

Letter == Range(LowerLetters) \cup Range(UpperLetters)

\* \w of the re module, restricted to ASCII
WordChar == Letter \cup Digit \cup {"_"}

\* \s of the re module; the model's strings use the blank only
Space == {" "}

IndexOf(f, c) == CHOOSE i \in DOMAIN f : f[i] = c

\* str.lower() on one character
LowerChar(c) ==
  IF c \in Range(UpperLetters) THEN LowerLetters[IndexOf(UpperLetters, c)] ELSE c

\* str.upper() on one character
UpperChar(c) ==
  IF c \in Range(LowerLetters) THEN UpperLetters[IndexOf(LowerLetters, c)] ELSE c

Lower(s) == [i \in 1..Len(s) |-> LowerChar(s[i])]

Upper(s) == [i \in 1..Len(s) |-> UpperChar(s[i])]

\* s[i:].startswith(pat), 1-based
StartsAt(s, i, pat) ==
  /\ i >= 1
  /\ i + Len(pat) - 1 <= Len(s)
  /\ \A k \in 1..Len(pat) : s[i + k - 1] = pat[k]

\* s[i:].upper().startswith(pat), 1-based
StartsAtUpper(s, i, pat) ==
  /\ i >= 1
  /\ i + Len(pat) - 1 <= Len(s)
  /\ \A k \in 1..Len(pat) : UpperChar(s[i + k - 1]) = pat[k]

\* pat in s
Contains(s, pat) == \E i \in 1..(Len(s) + 1) : StartsAt(s, i, pat)

\* smallest element of a non-empty set of integers
Min(S) == CHOOSE x \in S : \A y \in S : x <= y

Max(S) == CHOOSE x \in S : \A y \in S : x >= y

\* s[i-1:] with i 1-based
From(s, i) == SubSeq(s, i, Len(s))

RECURSIVE SkipClass(_, _, _)
\* first index >= i whose character is not in the class cls (Len(s)+1 when none)
SkipClass(s, i, cls) ==
  IF i > Len(s) \/ s[i] \notin cls THEN i ELSE SkipClass(s, i + 1, cls)

RECURSIVE SkipClassBack(_, _, _)
\* last index <= i whose character is not in the class cls (0 when none)
SkipClassBack(s, i, cls) ==
  IF i < 1 \/ s[i] \notin cls THEN i ELSE SkipClassBack(s, i - 1, cls)

\* str.strip()
Strip(s) == SubSeq(s, SkipClass(s, 1, Space), SkipClassBack(s, Len(s), Space))

\* str.replace(pat, rep) for a non-empty pat: every non-overlapping occurrence, left to right
RECURSIVE Replace(_, _, _)
Replace(s, pat, rep) ==
  LET hits == {i \in 1..Len(s) : StartsAt(s, i, pat)}
  IN  IF pat = <<>> \/ hits = {} THEN s
      ELSE LET i == Min(hits)
           IN  SubSeq(s, 1, i - 1) \o rep \o Replace(From(s, i + Len(pat)), pat, rep)

RECURSIVE Join(_, _)
\* sep.join(parts)
Join(parts, sep) ==
  IF parts = <<>> THEN <<>>
  ELSE IF Len(parts) = 1 THEN parts[1]
  ELSE parts[1] \o sep \o Join(Tail(parts), sep)

(***************************************************************************)
(* QueryTranslator                                                         *)
(***************************************************************************)
DataSourceType == {"prometheus", "influxdb", "elasticsearch", "cloudwatch"}

\* DataSourceType.value as text
TargetValue(t) ==
  CASE t = "prometheus" -> <<"p","r","o","m","e","t","h","e","u","s">>
    [] t = "influxdb" -> <<"i","n","f","l","u","x","d","b">>
    [] t = "elasticsearch" -> <<"e","l","a","s","t","i","c","s","e","a","r","c","h">>
    [] OTHER -> <<"c","l","o","u","d","w","a","t","c","h">>

\* [\w\.\-] of ts_pattern
MetricChar == WordChar \cup {".", "-"}

NoMatch == [found |-> FALSE, metric |-> <<>>, tags |-> <<>>]

\* ts\(([\w\.\-]+)(?:,\s*(.+))?\) matched at position i: group 1 is the
\* greedy run of metric characters; the optional group needs a comma, and its
\* greedy (.+) runs to the last ")" of the string
TsSelectorAt(s, i) ==
  IF ~StartsAt(s, i, <<"t","s","(">>) THEN NoMatch
  ELSE
    LET m0   == i + 3
        mEnd == SkipClass(s, m0, MetricChar)
        closes == {j \in 1..Len(s) : s[j] = ")"}
    IN  IF mEnd = m0 \/ mEnd > Len(s) THEN NoMatch
        ELSE IF s[mEnd] = ")" THEN
          [found |-> TRUE, metric |-> SubSeq(s, m0, mEnd - 1), tags |-> <<>>]
        ELSE IF s[mEnd] = "," THEN
          LET p  == mEnd + 1
              sp == SkipClass(s, p, Space)
              L  == IF closes = {} THEN 0 ELSE Max(closes)
          IN  IF L >= sp + 1 THEN
                [found |-> TRUE, metric |-> SubSeq(s, m0, mEnd - 1),
                 tags |-> SubSeq(s, sp, L - 1)]
              ELSE IF L >= p + 1 THEN
                [found |-> TRUE, metric |-> SubSeq(s, m0, mEnd - 1),
                 tags |-> SubSeq(s, L - 1, L - 1)]
              ELSE NoMatch
        ELSE NoMatch

\* re.search(ts_pattern, wql_query): the leftmost match
TsSelectorSearch(s) ==
  LET hits == {i \in 1..Len(s) : TsSelectorAt(s, i).found}
  IN  IF hits = {} THEN NoMatch ELSE TsSelectorAt(s, Min(hits))

\* (\w+)="([^"]+)" matched at position i: end of the match, 0 when none
TagEndAt(s, i) ==
  IF i > Len(s) \/ s[i] \notin WordChar THEN 0
  ELSE
    LET e == SkipClass(s, i, WordChar)
    IN  IF ~StartsAt(s, e, <<"=", "\"">>) THEN 0
        ELSE LET q == SkipClass(s, e + 2, {c \in Range(s) : c # "\""})
             IN  IF q > Len(s) \/ q = e + 2 THEN 0 ELSE q

RECURSIVE TagFindAll(_)
\* re.findall(tag_pattern, tags_str): the (key, value) pairs, left to right
TagFindAll(s) ==
  LET hits == {i \in 1..Len(s) : TagEndAt(s, i) # 0}
  IN  IF hits = {} THEN <<>>
      ELSE LET i == Min(hits)
               e == SkipClass(s, i, WordChar)
               q == TagEndAt(s, i)
           IN  <<[k |-> SubSeq(s, i, e - 1), v |-> SubSeq(s, e + 2, q - 1)]>>
               \o TagFindAll(From(s, q + 1))

\* {k: v for k, v in tag_matches}: one entry per key, at the place of the
\* key's first occurrence, holding the value of its last occurrence
TagDict(pairs) ==
  LET firsts == {i \in 1..Len(pairs) : \A j \in 1..(i - 1) : pairs[j].k # pairs[i].k}
      lastOf(key) == Max({j \in 1..Len(pairs) : pairs[j].k = key})
      ordered == SelectSeq([i \in 1..Len(pairs) |-> i], LAMBDA i : i \in firsts)
  IN  [n \in 1..Len(ordered) |->
         [k |-> pairs[ordered[n]].k, v |-> pairs[lastOf(pairs[ordered[n]].k)].v]]

\* k="v"
PromTag(p) == p.k \o <<"=", "\"">> \o p.v \o <<"\"">>

\* the selector with only the first dot of the metric rewritten
BarePromql_FirstDotOnly(m) ==
  LET dots   == {i \in 1..Len(m.metric) : m.metric[i] = "."}
      metric == [i \in 1..Len(m.metric) |->
                   IF dots # {} /\ i = Min(dots) THEN "_" ELSE m.metric[i]]
      tags   == IF m.tags = <<>> THEN <<>> ELSE TagDict(TagFindAll(m.tags))
  IN  IF tags # <<>>
      THEN metric \o <<"{">>
           \o Join([i \in 1..Len(tags) |-> PromTag(tags[i])], <<",", " ">>)
           \o <<"}">>
      ELSE metric

\* the selector of wql_to_promql before any function is applied
BarePromql(m) ==
  LET metric == Replace(m.metric, <<".">>, <<"_">>)
      tags   == IF m.tags = <<>> THEN <<>> ELSE TagDict(TagFindAll(m.tags))
  IN  IF tags # <<>>
      THEN metric \o <<"{">>
           \o Join([i \in 1..Len(tags) |-> PromTag(tags[i])], <<",", " ">>)
           \o <<"}">>
      ELSE metric

\* (\d+[smhd]) after the keyword kw at position i: the duration text, <<>> when none
DurationAt(s, i, kw) ==
  IF ~StartsAt(s, i, kw) THEN <<>>
  ELSE LET d0 == i + Len(kw)
           d1 == SkipClass(s, d0, Digit)
       IN  IF d1 > d0 /\ d1 <= Len(s) /\ s[d1] \in {"s", "m", "h", "d"}
           THEN SubSeq(s, d0, d1) ELSE <<>>

\* kw(\d+[smhd]),\s*ts\( matched at position i
WindowedTsAt(s, i, kw) ==
  LET d == DurationAt(s, i, kw)
      c == i + Len(kw) + Len(d)
  IN  /\ d # <<>>
      /\ c <= Len(s)
      /\ s[c] = ","
      /\ StartsAt(s, SkipClass(s, c + 1, Space), <<"t","s","(">>)

\* group 1 of the leftmost match of kw(\d+[smhd]), <<>> when there is none
FirstDuration(s, kw) ==
  LET hits == {i \in 1..Len(s) : DurationAt(s, i, kw) # <<>>}
  IN  IF hits = {} THEN <<>> ELSE DurationAt(s, Min(hits), kw)

\* group 1 of the leftmost match of kw(\d+[smhd]),\s*ts\(, <<>> when there is none
FirstWindowedDuration(s, kw) ==
  LET hits == {i \in 1..Len(s) : WindowedTsAt(s, i, kw)}
  IN  IF hits = {} THEN <<>> ELSE DurationAt(s, Min(hits), kw)

RECURSIVE DigitsToNat(_)
\* int() of a string of decimal digits
DigitsToNat(ds) ==
  IF ds = <<>> THEN 0
  ELSE 10 * DigitsToNat(SubSeq(ds, 1, Len(ds) - 1)) + (IndexOf(DigitChars, ds[Len(ds)]) - 1)

RECURSIVE NatToDigits(_)
\* str() of a natural number
NatToDigits(n) ==
  IF n < 10 THEN <<DigitChars[n + 1]>>
  ELSE NatToDigits(n \div 10) \o <<DigitChars[(n % 10) + 1]>>

\* f"{float(n) / 100}": the shortest decimal text of n hundredths
HundredthsText(n) ==
  LET cents == n % 100
      frac  == IF cents % 10 = 0 THEN <<DigitChars[(cents \div 10) + 1]>>
               ELSE <<DigitChars[(cents \div 10) + 1], DigitChars[(cents % 10) + 1]>>
  IN  NatToDigits(n \div 100) \o <<".">> \o frac

\* group 1 of the leftmost match of percentile\((\d+), <<>> when there is none
PercentileDigits(s) ==
  LET kw == <<"p","e","r","c","e","n","t","i","l","e","(">>
      hits == {i \in 1..Len(s) : /\ StartsAt(s, i, kw)
                                 /\ SkipClass(s, i + Len(kw), Digit) > i + Len(kw)}
  IN  IF hits = {} THEN <<>>
      ELSE LET i == Min(hits)
           IN  SubSeq(s, i + Len(kw), SkipClass(s, i + Len(kw), Digit) - 1)

Wrap(fn, body, tail) == fn \o body \o tail

\* the if/elif chain of wql_to_promql: the one function applied to promql
ApplyPromFunction(wql_lower, promql) ==
  IF FirstWindowedDuration(wql_lower, <<"m","a","v","g","(">>) # <<>> THEN
    Wrap(<<"a","v","g","_","o","v","e","r","_","t","i","m","e","(">>, promql,
         <<"[">> \o FirstDuration(wql_lower, <<"m","a","v","g","(">>) \o <<"]", ")">>)
  ELSE IF Contains(wql_lower, <<"r","a","t","e","(">>) THEN
    LET d == FirstWindowedDuration(wql_lower, <<"r","a","t","e","(">>)
    IN  Wrap(<<"r","a","t","e","(">>, promql,
             <<"[">> \o (IF d # <<>> THEN d ELSE <<"5", "m">>) \o <<"]", ")">>)
  ELSE IF Contains(wql_lower, <<"p","e","r","c","e","n","t","i","l","e","(">>) THEN
    LET ds == PercentileDigits(wql_lower)
    IN  IF ds # <<>>
        THEN <<"q","u","a","n","t","i","l","e","(">> \o HundredthsText(DigitsToNat(ds))
             \o <<",", " ">> \o promql \o <<")">>
        ELSE promql
  ELSE IF Contains(wql_lower, <<"a","v","g","(">>) THEN
    Wrap(<<"a","v","g","(">>, promql, <<")">>)
  ELSE IF Contains(wql_lower, <<"s","u","m","(">>) THEN
    Wrap(<<"s","u","m","(">>, promql, <<")">>)
  ELSE IF Contains(wql_lower, <<"m","a","x","(">>) THEN
    Wrap(<<"m","a","x","(">>, promql, <<")">>)
  ELSE IF Contains(wql_lower, <<"m","i","n","(">>) THEN
    Wrap(<<"m","i","n","(">>, promql, <<")">>)
  ELSE IF Contains(wql_lower, <<"c","o","u","n","t","(">>) THEN
    Wrap(<<"c","o","u","n","t","(">>, promql, <<")">>)
  ELSE IF Contains(wql_lower, <<"s","t","d","d","e","v","(">>) THEN
    Wrap(<<"s","t","d","d","e","v","(">>, promql, <<")">>)
  ELSE IF Contains(wql_lower, <<"d","e","r","i","v","(">>) THEN
    Wrap(<<"d","e","r","i","v","(">>, promql, <<"[","5","m","]",")">>)
  ELSE IF Contains(wql_lower, <<"l","a","s","t","(">>) THEN
    Wrap(<<"l","a","s","t","_","o","v","e","r","_","t","i","m","e","(">>, promql,
         <<"[","5","m","]",")">>)
  ELSE promql

Quote == {"\"", "'"}

\* the name captured by aliasMetric\(.*,\s*["\']([^"\']+)["\'] when the greedy
\* .* ends just before the comma at position c; <<>> when that comma does not fit
AliasNameAfterComma(s, c) ==
  LET q0 == SkipClass(s, c + 1, Space)
  IN  IF q0 > Len(s) \/ s[q0] \notin Quote THEN <<>>
      ELSE LET q1 == SkipClass(s, q0 + 1, {ch \in Range(s) : ch \notin Quote})
           IN  IF q1 > Len(s) \/ q1 = q0 + 1 THEN <<>>
               ELSE SubSeq(s, q0 + 1, q1 - 1)

\* re.search(alias_pattern, wql_query).group(1), <<>> when there is no match
AliasName(s) ==
  LET kw == <<"a","l","i","a","s","M","e","t","r","i","c","(">>
      commasAfter(i) == {c \in (i + Len(kw))..Len(s) :
                           s[c] = "," /\ AliasNameAfterComma(s, c) # <<>>}
      hits == {i \in 1..Len(s) : StartsAt(s, i, kw) /\ commasAfter(i) # {}}
  IN  IF hits = {} THEN <<>>
      ELSE AliasNameAfterComma(s, Max(commasAfter(Min(hits))))

wql_to_promql(wql) ==
  LET m == TsSelectorSearch(wql)
  IN  IF m.found THEN
        LET promql == ApplyPromFunction(Lower(wql), BarePromql(m))
            alias  == AliasName(wql)
        IN  IF alias # <<>>
            THEN <<"l","a","b","e","l","_","r","e","p","l","a","c","e","(">> \o promql
                 \o <<","," ","\"","_","_","n","a","m","e","_","_","\"",","," ","\"">>
                 \o alias \o <<"\"",","," ","\"","\"",","," ","\"","\"",")">>
            ELSE promql
      ELSE <<"#"," ","T","O","D","O",":"," ","T","r","a","n","s","l","a","t","e",
             " ","W","Q","L",":"," ">> \o wql

\* "k"='v'
InfluxTag(p) == <<"\"">> \o p.k \o <<"\"", "=", "'">> \o p.v \o <<"'">>

MeanValue == <<"m","e","a","n","(","\"","v","a","l","u","e","\"",")">>

\* the aggregation named in the select clause of wql_to_influxql (case-sensitive scan)
InfluxAggregation(wql) ==
  IF Contains(wql, <<"a","v","g","(">>) THEN MeanValue
  ELSE IF Contains(wql, <<"s","u","m","(">>)
       THEN <<"s","u","m","(","\"","v","a","l","u","e","\"",")">>
  ELSE IF Contains(wql, <<"m","a","x","(">>)
       THEN <<"m","a","x","(","\"","v","a","l","u","e","\"",")">>
  ELSE IF Contains(wql, <<"m","i","n","(">>)
       THEN <<"m","i","n","(","\"","v","a","l","u","e","\"",")">>
  ELSE MeanValue

wql_to_influxql(wql) ==
  LET m == TsSelectorSearch(wql)
  IN  IF m.found THEN
        LET tag_matches == IF m.tags = <<>> THEN <<>> ELSE TagFindAll(m.tags)
            where_clause ==
              IF tag_matches # <<>>
              THEN <<" ","W","H","E","R","E"," ">>
                   \o Join([i \in 1..Len(tag_matches) |-> InfluxTag(tag_matches[i])],
                           <<" ","A","N","D"," ">>)
              ELSE <<>>
            influxql == <<"S","E","L","E","C","T"," ">> \o MeanValue
                        \o <<" ","F","R","O","M"," ","\"">> \o m.metric \o <<"\"">>
                        \o where_clause
        IN  Replace(influxql, MeanValue, InfluxAggregation(wql))
            \o <<" ","G","R","O","U","P"," ","B","Y"," ","t","i","m","e","(","$","_","_",
                 "i","n","t","e","r","v","a","l",")"," ","f","i","l","l","(","n","u","l",
                 "l",")">>
      ELSE <<"-","-"," ","T","O","D","O",":"," ","T","r","a","n","s","l","a","t","e",
             " ","W","Q","L",":"," ">> \o wql

\* a dispatcher whose PromQL placeholder leaves the expression out
translate_BarePlaceholder(wql, t) ==
  IF t = "prometheus"
  THEN IF TsSelectorSearch(wql).found THEN wql_to_promql(wql)
       ELSE <<"#"," ","T","O","D","O">>
  ELSE IF t = "influxdb" THEN wql_to_influxql(wql)
  ELSE <<"#"," ","U","n","s","u","p","p","o","r","t","e","d">>

\* QueryTranslator.translate
translate(wql, t) ==
  IF t = "prometheus" THEN wql_to_promql(wql)
  ELSE IF t = "influxdb" THEN wql_to_influxql(wql)
  ELSE <<"#"," ","U","n","s","u","p","p","o","r","t","e","d"," ","t","a","r","g","e","t",
         ":"," ">> \o TargetValue(t)
       \o <<"."," ","O","r","i","g","i","n","a","l"," ","W","Q","L",":"," ">> \o wql

(***************************************************************************)
(* GrafanaAlertBuilder: condition parsing                                  *)
(***************************************************************************)
\* \s+(AND|OR)\s+ (IGNORECASE) matched at position i: where the operator
\* starts, how long it is and where the match ends; len = 0 when no match
AndOrAt(s, i) ==
  IF i > Len(s) \/ s[i] \notin Space THEN [len |-> 0, op |-> 0, end |-> 0]
  ELSE
    LET j == SkipClass(s, i, Space)
        n == IF StartsAtUpper(s, j, <<"A","N","D">>) THEN 3
             ELSE IF StartsAtUpper(s, j, <<"O","R">>) THEN 2 ELSE 0
        k == j + n
    IN  IF n = 0 \/ k > Len(s) \/ s[k] \notin Space
        THEN [len |-> 0, op |-> 0, end |-> 0]
        ELSE [len |-> n, op |-> j, end |-> SkipClass(s, k, Space)]

RECURSIVE SplitAndOr(_)
\* re.split(r'\s+(AND|OR)\s+', condition, flags=re.IGNORECASE): the texts
\* between the matches, with the captured operator after each of them
SplitAndOr(s) ==
  LET hits == {i \in 1..Len(s) : AndOrAt(s, i).len > 0}
  IN  IF hits = {} THEN <<s>>
      ELSE LET i == Min(hits)
               m == AndOrAt(s, i)
           IN  <<SubSeq(s, 1, i - 1), SubSeq(s, m.op, m.op + m.len - 1)>>
               \o SplitAndOr(From(s, m.end))

\* part.upper() in ['AND', 'OR']
IsAndOr(part) == Upper(part) \in {<<"A","N","D">>, <<"O","R">>}

\* ts\([^)]+\) matched at position i: the position of the closing ")", 0 when none
TsCallEndAt(s, i) ==
  IF ~StartsAt(s, i, <<"t","s","(">>) THEN 0
  ELSE LET closes == {j \in (i + 3)..Len(s) : s[j] = ")"}
       IN  IF closes = {} \/ Min(closes) = i + 3 THEN 0 ELSE Min(closes)

RECURSIVE TsFindAll(_)
\* re.findall(r'ts\([^)]+\)', text)
TsFindAll(s) ==
  LET hits == {i \in 1..Len(s) : TsCallEndAt(s, i) # 0}
  IN  IF hits = {} THEN <<>>
      ELSE LET i == Min(hits)
               e == TsCallEndAt(s, i)
           IN  <<SubSeq(s, i, e)>> \o TsFindAll(From(s, e + 1))

\* [\d.] of the threshold pattern
NumberChar == Digit \cup {"."}

\* ([<>]=?|=)\s*([\d.]+) matched at position i with an operator of n characters
ThresholdFits(s, i, n) ==
  LET q == SkipClass(s, i + n, Space)
  IN  q <= Len(s) /\ s[q] \in NumberChar

\* the operator lengths the alternation ([<>]=?|=) tries at position i, in order
OperatorLengths(s, i) ==
  IF s[i] \in {"<", ">"}
  THEN IF i + 1 <= Len(s) /\ s[i + 1] = "=" THEN <<2, 1>> ELSE <<1>>
  ELSE IF s[i] = "=" THEN <<1>> ELSE <<>>

ThresholdLengthAt(s, i) ==
  LET fits == SelectSeq(OperatorLengths(s, i), LAMBDA n : ThresholdFits(s, i, n))
  IN  IF fits = <<>> THEN 0 ELSE fits[1]

\* re.search(r'([<>]=?|=)\s*([\d.]+)', s): group 1 and group 2 of the leftmost match
ThresholdSearch(s) ==
  LET hits == {i \in 1..Len(s) : ThresholdLengthAt(s, i) > 0}
  IN  IF hits = {} THEN [found |-> FALSE, operator |-> <<>>, literal |-> <<>>]
      ELSE LET i == Min(hits)
               n == ThresholdLengthAt(s, i)
               q == SkipClass(s, i + n, Space)
           IN  [found |-> TRUE,
                operator |-> SubSeq(s, i, i + n - 1),
                literal |-> SubSeq(s, q, SkipClass(s, q, NumberChar) - 1)]

\* float(text) raises ValueError unless text, made of digits and dots, has
\* one dot at most and a digit
IsFloatText(text) ==
  /\ Cardinality({i \in 1..Len(text) : text[i] = "."}) <= 1
  /\ \E i \in 1..Len(text) : text[i] \in Digit

RECURSIVE StripTrailingZeros(_)
StripTrailingZeros(ds) ==
  IF ds # <<>> /\ ds[Len(ds)] = "0" THEN StripTrailingZeros(SubSeq(ds, 1, Len(ds) - 1))
  ELSE ds

\* float(text) of a text that IsFloatText: the integer part and the
\* significant digits of the fraction
FloatValue(text) ==
  LET dots == {i \in 1..Len(text) : text[i] = "."}
      d == IF dots = {} THEN Len(text) + 1 ELSE Min(dots)
  IN  [int |-> DigitsToNat(SubSeq(text, 1, d - 1)),
       frac |-> StripTrailingZeros(SubSeq(text, d + 1, Len(text)))]

\* the number 0
Zero == [int |-> 0, frac |-> <<>>]

\* GrafanaAlertBuilder._map_operator
_map_operator(operator) ==
  CASE operator = <<">">> -> "gt"
    [] operator = <<">", "=">> -> "gte"
    [] operator = <<"<">> -> "lt"
    [] operator = <<"<", "=">> -> "lte"
    [] operator = <<"=">> -> "eq"
    [] operator = <<"=", "=">> -> "eq"
    [] operator = <<"!", "=">> -> "neq"
    [] OTHER -> "gt"

\* operator_map.get(operator, 'gt') of the fallback branch of _parse_wavefront_condition
FallbackOperator(operator) ==
  CASE operator = <<">">> -> "gt"
    [] operator = <<">", "=">> -> "gte"
    [] operator = <<"<">> -> "lt"
    [] operator = <<"<", "=">> -> "lte"
    [] operator = <<"=">> -> "eq"
    [] OTHER -> "gt"

\* the entry appended to queries for one ts() match of one part; bad is set
\* when float() raises on the literal
QueryEntry(part, ts_match) ==
  LET remaining == Strip(Replace(part, ts_match, <<>>))
      threshold_match == ThresholdSearch(remaining)
  IN  IF threshold_match.found
      THEN [isdict |-> TRUE, query |-> ts_match,
            operator |-> threshold_match.operator,
            value |-> IF IsFloatText(threshold_match.literal)
                      THEN FloatValue(threshold_match.literal) ELSE Zero,
            bad |-> ~IsFloatText(threshold_match.literal)]
      ELSE [isdict |-> TRUE, query |-> ts_match, operator |-> <<">">>,
            value |-> Zero, bad |-> FALSE]

\* the entries of one part, one per ts() match
PartEntries(part) ==
  LET ts_matches == TsFindAll(part)
  IN  [n \in 1..Len(ts_matches) |-> QueryEntry(part, ts_matches[n])]

RECURSIVE PartsEntries(_)
\* the loop over parts: AND/OR tokens are skipped
PartsEntries(parts) ==
  IF parts = <<>> THEN <<>>
  ELSE (IF IsAndOr(parts[1]) THEN <<>> ELSE PartEntries(parts[1]))
       \o PartsEntries(Tail(parts))

StringEntry(text) ==
  [isdict |-> FALSE, query |-> text, operator |-> <<>>, value |-> Zero, bad |-> FALSE]

DefaultThreshold == [operator |-> "gt", value |-> Zero]

\* GrafanaAlertBuilder._parse_wavefront_condition: the pair (queries,
\* threshold_info), or the exception that float() raised
_parse_wavefront_condition(condition) ==
  LET entries == PartsEntries(SplitAndOr(condition))
  IN  IF \E n \in 1..Len(entries) : entries[n].bad
      THEN [raised |-> "ValueError", queries |-> <<>>, threshold_info |-> DefaultThreshold]
      ELSE IF entries # <<>>
      THEN [raised |-> "", queries |-> entries, threshold_info |-> DefaultThreshold]
      ELSE
        LET ts_matches == TsFindAll(condition)
            threshold_match == ThresholdSearch(condition)
        IN  IF ts_matches # <<>> THEN
              IF threshold_match.found /\ ~IsFloatText(threshold_match.literal)
              THEN [raised |-> "ValueError", queries |-> <<>>,
                    threshold_info |-> DefaultThreshold]
              ELSE [raised |-> "",
                    queries |-> [n \in 1..Len(ts_matches) |-> StringEntry(ts_matches[n])],
                    threshold_info |->
                      IF threshold_match.found
                      THEN [operator |-> FallbackOperator(threshold_match.operator),
                            value |-> FloatValue(threshold_match.literal)]
                      ELSE DefaultThreshold]
            ELSE IF Strip(condition) # <<>>
            THEN [raised |-> "", queries |-> <<StringEntry(Strip(condition))>>,
                  threshold_info |-> DefaultThreshold]
            ELSE [raised |-> "", queries |-> <<>>, threshold_info |-> DefaultThreshold]

\* GrafanaAlertBuilder._extract_logical_operator
_extract_logical_operator(condition, position) ==
  LET parts == SplitAndOr(condition)
      ops == SelectSeq(parts, IsAndOr)
  IN  IF position >= 1 /\ position <= Len(ops)
      THEN IF Upper(ops[position]) = <<"A","N","D">> THEN <<"&", "&">> ELSE <<"|", "|">>
      ELSE <<"&", "&">>

\* GrafanaAlertBuilder._determine_reducer_type
_determine_reducer_type(condition) ==
  LET condition_lower == Lower(condition)
  IN  IF Contains(condition_lower, <<"a","v","g","(">>)
         \/ Contains(condition_lower, <<"m","a","v","g","(">>) THEN "mean"
      ELSE IF Contains(condition_lower, <<"s","u","m","(">>) THEN "sum"
      ELSE IF Contains(condition_lower, <<"m","a","x","(">>) THEN "max"
      ELSE IF Contains(condition_lower, <<"m","i","n","(">>) THEN "min"
      ELSE IF Contains(condition_lower, <<"c","o","u","n","t","(">>) THEN "count"
      ELSE IF Contains(condition_lower, <<"s","t","d","d","e","v","(">>) THEN "stdDev"
      ELSE IF Contains(condition_lower, <<"l","a","s","t","(">>) THEN "last"
      ELSE IF Contains(condition_lower, <<"m","e","d","i","a","n","(">>) THEN "median"
      ELSE IF Contains(condition_lower, <<"f","i","r","s","t","(">>) THEN "first"
      ELSE "last"

\* a conversion that rounds to the nearest hour or day instead of flooring
_convert_duration_Rounded(minutes) ==
  IF minutes < 60 THEN NatToDigits(minutes) \o <<"m">>
  ELSE IF minutes < 1440 THEN NatToDigits((minutes + 30) \div 60) \o <<"h">>
  ELSE NatToDigits((minutes + 720) \div 1440) \o <<"d">>

\* GrafanaAlertBuilder._convert_duration
_convert_duration(minutes) ==
  IF minutes < 60 THEN NatToDigits(minutes) \o <<"m">>
  ELSE IF minutes < 1440 THEN NatToDigits(minutes \div 60) \o <<"h">>
  ELSE NatToDigits(minutes \div 1440) \o <<"d">>

(***************************************************************************)
(* GrafanaAlertBuilder.build_alert                                         *)
(***************************************************************************)
\* the characters chr(65) .. chr(95)
AsciiFrom65 == UpperLetters \o <<"[", "\\", "]", "^", "_">>

\* chr(n) for 65 <= n <= 95
Chr(n) == AsciiFrom65[n - 64]

\* self.datasource_uid of the builder
datasource_uid == "datasource-uid"

NoEvaluator == [type |-> "", params |-> <<>>]

\* a query step that carries the text in the field of the other dialect
QueryNode_FieldsSwapped(ref, translated_query, dst) ==
  [refId |-> ref, kind |-> "query", datasourceUid |-> datasource_uid,
   expr |-> IF dst = "influxdb" THEN translated_query ELSE <<>>,
   query |-> IF dst = "prometheus" THEN translated_query ELSE <<>>,
   expression |-> <<>>, reducer |-> "", evaluator |-> NoEvaluator]

\* a query step of the data list: the model has no "type" key
QueryNode(ref, translated_query, dst) ==
  [refId |-> ref, kind |-> "query", datasourceUid |-> datasource_uid,
   expr |-> IF dst = "prometheus" THEN translated_query ELSE <<>>,
   query |-> IF dst = "influxdb" THEN translated_query ELSE <<>>,
   expression |-> <<>>, reducer |-> "", evaluator |-> NoEvaluator]

\* a reduce step; evaluator is conditions[0].evaluator where the model has conditions
ReduceNode(ref, upstream, reducer_type, evaluator) ==
  [refId |-> ref, kind |-> "reduce", datasourceUid |-> "__expr__",
   expr |-> <<>>, query |-> <<>>,
   expression |-> <<upstream>>, reducer |-> reducer_type, evaluator |-> evaluator]

\* a threshold step; the evaluator holds threshold_info's operator and value
ThresholdNode(ref, upstream, info) ==
  [refId |-> ref, kind |-> "threshold", datasourceUid |-> "__expr__",
   expr |-> <<>>, query |-> <<>>,
   expression |-> <<upstream>>, reducer |-> "",
   evaluator |-> [type |-> info.operator, params |-> <<info.value>>]]

\* a math step that names itself where it should name the previous chain
MathNode_SelfReference(ref, prev_ref, operator, threshold_ref) ==
  [refId |-> ref, kind |-> "math", datasourceUid |-> "__expr__",
   expr |-> <<>>, query |-> <<>>,
   expression |-> <<"$", ref, " ">> \o operator \o <<" ", "$", threshold_ref>>,
   reducer |-> "", evaluator |-> NoEvaluator]

\* a math step: f"${prev_ref} {operator} ${threshold_ref}"
MathNode(ref, prev_ref, operator, threshold_ref) ==
  [refId |-> ref, kind |-> "math", datasourceUid |-> "__expr__",
   expr |-> <<>>, query |-> <<>>,
   expression |-> <<"$", prev_ref, " ">> \o operator \o <<" ", "$", threshold_ref>>,
   reducer |-> "", evaluator |-> NoEvaluator]

\* the threshold of one entry of queries: its own when it is a dict, else
\* the shared threshold_info
EntryThreshold(entry, shared_threshold) ==
  IF entry.isdict
  THEN [operator |-> _map_operator(entry.operator), value |-> entry.value]
  ELSE shared_threshold

\* steps A, B and C with the threshold comparing the query step, not the reduce step
PrimarySteps_ThresholdOnQuery(query_list, shared_threshold, reducer_type, dst) ==
  <<QueryNode("A", translate(query_list[1].query, dst), dst),
    ReduceNode("B", "A", reducer_type, [type |-> "gt", params |-> <<>>]),
    ThresholdNode("C", "A", shared_threshold)>>

\* steps whose refIds come from a counter that a second call does not reset
PrimarySteps_CounterKept(query_list, shared_threshold, reducer_type, dst) ==
  LET first == IF pc = "call" THEN 65 ELSE 68
  IN  <<QueryNode(Chr(first), translate(query_list[1].query, dst), dst),
        ReduceNode(Chr(first + 1), Chr(first), reducer_type, [type |-> "gt", params |-> <<>>]),
        ThresholdNode(Chr(first + 2), Chr(first + 1), shared_threshold)>>

\* steps A, B and C
PrimarySteps(query_list, shared_threshold, reducer_type, dst) ==
  <<QueryNode("A", translate(query_list[1].query, dst), dst),
    ReduceNode("B", "A", reducer_type, [type |-> "gt", params |-> <<>>]),
    ThresholdNode("C", "B", shared_threshold)>>

\* the query_ref of the i-th additional query: chr(68 + i * 3)
QueryRef(i) == Chr(68 + i * 3)

\* the four steps appended by iteration i of the loop over queries[1:]
AdditionalSteps(condition, query_list, shared_threshold, reducer_type, dst, i, prev_ref) ==
  LET query_item == query_list[i + 1]
      query_ref == QueryRef(i)
      reduce_ref == Chr(69 + i * 3)
      threshold_ref == Chr(70 + i * 3)
      combine_ref == Chr(71 + i * 3)
  IN  <<QueryNode(query_ref, translate(query_item.query, dst), dst),
        ReduceNode(reduce_ref, query_ref, reducer_type, NoEvaluator),
        ThresholdNode(threshold_ref, reduce_ref, EntryThreshold(query_item, shared_threshold)),
        MathNode(combine_ref, prev_ref,
                 _extract_logical_operator(condition, i), threshold_ref)>>

RECURSIVE AdditionalChain(_, _, _, _, _, _, _)
\* the loop for i, query_item in enumerate(queries[1:], start=1), from
\* iteration i on, current_ref being prev_ref
AdditionalChain(condition, query_list, shared_threshold, reducer_type, dst, i, prev_ref) ==
  IF i + 1 > Len(query_list) THEN <<>>
  ELSE AdditionalSteps(condition, query_list, shared_threshold, reducer_type, dst, i, prev_ref)
       \o AdditionalChain(condition, query_list, shared_threshold, reducer_type, dst,
                          i + 1, Chr(71 + i * 3))

\* wf_alert.get('condition', '')
ConditionOf(alert) == IF alert.hasCondition THEN alert.condition ELSE <<>>

Take(s, n) == SubSeq(s, 1, IF Len(s) < n THEN Len(s) ELSE n)

NoRule == [uid |-> <<>>, condition |-> "", data |-> <<>>, for |-> <<>>]

\* the dict built at the end of build_alert
AlertRule(alert, steps) ==
  [uid |-> Take(<<"w", "f", "_">> \o alert.id, 40),
   condition |-> "C",
   data |-> steps,
   for |-> _convert_duration(alert.minutes)]

\* build_alert from "data = []" on: what it returns or raises, with its
\* locals queries, threshold_info and data as they are when it ends.  With more than one
\* query the assignment alert_rule["condition"] = current_ref after the loop
\* reads the local alert_rule before it is bound.
BuildFrom(alert, dst, condition, parsed, reducer_type) ==
  LET shared_threshold == IF parsed.queries # <<>>
                        THEN EntryThreshold(parsed.queries[1], parsed.threshold_info)
                        ELSE parsed.threshold_info
  IN  IF parsed.raised # "" THEN
        [raised |-> parsed.raised, queries |-> <<>>, threshold_info |-> DefaultThreshold,
         data |-> <<>>, alert_rule |-> NoRule]
      ELSE IF parsed.queries = <<>> THEN
        [raised |-> "", queries |-> <<>>, threshold_info |-> shared_threshold,
         data |-> <<>>, alert_rule |-> AlertRule(alert, <<>>)]
      ELSE
        LET primary == PrimarySteps(parsed.queries, shared_threshold, reducer_type, dst)
        IN  IF Len(parsed.queries) > 1 THEN
              [raised |-> "UnboundLocalError", queries |-> parsed.queries,
               threshold_info |-> shared_threshold,
               data |-> primary \o AdditionalChain(condition, parsed.queries, shared_threshold,
                                                   reducer_type, dst, 1, "C"),
               alert_rule |-> NoRule]
            ELSE
              [raised |-> "", queries |-> parsed.queries, threshold_info |-> shared_threshold,
               data |-> primary, alert_rule |-> AlertRule(alert, primary)]

\* build_alert: condition, the parse of it and the reducer type are computed
\* once at its start, and the steps are built from them
build_alert(alert, dst) ==
  BuildFrom(alert, dst, ConditionOf(alert), _parse_wavefront_condition(ConditionOf(alert)),
            _determine_reducer_type(ConditionOf(alert)))

(***************************************************************************)
(* The alert records and the expressions the model is run on               *)
(***************************************************************************)
\* the largest number of AND/OR-joined segments of a condition
MaxSegments == 3

\* the largest number of dot-separated segments of a metric name
MaxMetricSegments == 3

Selectors ==
  {<<"t","s","(","m",")">>,
   <<"t","s","(","a",".","b",")">>,
   <<"t","s","(","m",","," ","h","o","s","t","=","\"","a"," ","A","N","D"," ","b","\"",")">>,
   <<"a","v","g","(","t","s","(","c","p","u",".","l","o","a","d",","," ","e","n","v","=",
     "\"","p","\"",")",")">>}

Comparators ==
  {<<">">>, <<">", "=">>, <<"<">>, <<"<", "=">>, <<"=">>, <<"=", "=">>, <<"!", "=">>}

NumericLiterals == {<<"5">>, <<"1", "0">>, <<"1", ".", "5">>, <<"0">>}

\* selector comparator literal, separated by one blank
SimpleCondition(sel, op, lit) == sel \o <<" ">> \o op \o <<" ">> \o lit

SimpleConditions ==
  {SimpleCondition(sel, op, lit) : sel \in Selectors, op \in Comparators,
                                   lit \in NumericLiterals}

\* conditions that lack a selector, a comparator or a well-formed literal
OddConditions ==
  {<<>>,
   <<" ", " ">>,
   <<"c","p","u"," ","h","i","g","h">>,
   <<"t","s","(","m",")">>,
   <<"t","s","(","m",")",">","=","1","0">>,
   <<"t","s","(","m",")"," ",">"," ","-","5">>,
   <<"t","s","(","m",")"," ",">"," ","1",".","2",".","3">>,
   <<"t","s","(","m",")"," ",">"," ",".">>,
   <<"t","s","(","a"," ","A","N","D"," ","b",")"," ",">"," ","3">>,
   <<"t","s","(","m",")"," ",">"," ","5"," ","A","N","D">>,
   <<"t","s","(","a",")"," ","A","N","D"," ","t","s","(","b",")"," ",">"," ","5">>,
   <<"a","v","g","(","t","s","(","a",")",")"," ",">"," ","1"," ","A","N","D"," ","m","a","x","(","t","s","(","b",")",")"," ",">"," ","2">>}

Segments ==
  {<<"t","s","(","m",")"," ",">"," ","5">>,
   <<"t","s","(","a",".","b",")"," ","<","="," ","1",".","5">>,
   <<"m","a","x","(","t","s","(","m",")",")">>}

Joiners == {<<" ","A","N","D"," ">>, <<" ","o","r"," ">>}

RECURSIVE Chains(_)
\* the conditions made of n segments
Chains(n) ==
  IF n = 1 THEN Segments
  ELSE {c \o j \o seg : c \in Chains(n - 1), j \in Joiners, seg \in Segments}

ChainedConditions == UNION {Chains(n) : n \in 2..MaxSegments}

NoStatus == [list |-> FALSE, items |-> <<>>]

\* a record of the free-text shape
FreeTextAlert(condition, status) ==
  [id |-> <<"a","l","e","r","t","-","1">>, hasCondition |-> TRUE, condition |-> condition,
   minutes |-> 5, status |-> status, alertSources |-> <<>>, conditions |-> <<>>]

\* a record of the structured shape: it has no condition key
StructuredAlert(alertSources, conditions) ==
  [id |-> <<"a","l","e","r","t","-","1">>, hasCondition |-> FALSE, condition |-> <<>>,
   minutes |-> 5, status |-> NoStatus, alertSources |-> alertSources,
   conditions |-> conditions]

StatusValues ==
  {[list |-> FALSE, items |-> <<<<"S","N","O","O","Z","E","D">>>>],
   [list |-> TRUE, items |-> <<<<"S","N","O","O","Z","E","D">>>>],
   [list |-> FALSE, items |-> <<<<"s","n","o","o","z","e","d">>>>],
   [list |-> TRUE, items |-> <<<<"A","C","T","I","V","E">>, <<"S","N","O","O","Z","E","D">>>>],
   [list |-> FALSE, items |-> <<<<"A","C","T","I","V","E">>>>]}

StatusAlerts ==
  {FreeTextAlert(c, st) :
     c \in {<<"t","s","(","m",")"," ",">"," ","5">>, <<>>}, st \in StatusValues}

\* alertSources [{name: "X", query: "ts(m)"}], conditions {"severe": "${X} > 10"}
StructuredX ==
  StructuredAlert(<<[name |-> <<"X">>, query |-> <<"t","s","(","m",")">>]>>,
                  <<[severity |-> <<"s","e","v","e","r","e">>,
                     expr |-> <<"$","{","X","}"," ",">"," ","1","0">>]>>)

\* sub-query A is ${B}, B being declared after A
ForwardReference ==
  StructuredAlert(<<[name |-> <<"A">>, query |-> <<"$","{","B","}">>],
                    [name |-> <<"B">>, query |-> <<"t","s","(","m",")">>]>>,
                  <<[severity |-> <<"s","e","v","e","r","e">>,
                     expr |-> <<"$","{","A","}"," ",">"," ","1","0">>]>>)

\* sub-query A is ${Z}, Z being declared nowhere
UndeclaredReference ==
  StructuredAlert(<<[name |-> <<"A">>, query |-> <<"$","{","Z","}">>]>>,
                  <<[severity |-> <<"s","e","v","e","r","e">>,
                     expr |-> <<"$","{","A","}"," ",">"," ","1","0">>]>>)

StructuredAlerts == {StructuredX, ForwardReference, UndeclaredReference}

\* the largest minute count of an alert record
MaxMinutes == 2880

MinuteCounts == 0..MaxMinutes

\* a free-text record that fires after the given number of minutes
TimedAlert(condition, minutes) ==
  [FreeTextAlert(condition, NoStatus) EXCEPT !.minutes = minutes]

TimedAlerts == {TimedAlert(<<"t","s","(","m",")"," ",">"," ","5">>, m) : m \in MinuteCounts}

\* an id of 38 characters: 37 times "x" and one more character
LongId(last) == [i \in 1..37 |-> "x"] \o <<last>>

AlertIds == {<<"1">>, <<"2">>, <<"1", "2">>, LongId("1"), LongId("2")}

\* a free-text record with the given id
IdentifiedAlert(id) ==
  [FreeTextAlert(<<"t","s","(","m",")"," ",">"," ","5">>, NoStatus) EXCEPT !.id = id]

IdentifiedAlerts == {IdentifiedAlert(id) : id \in AlertIds}

AlertRecords ==
  {FreeTextAlert(c, NoStatus) : c \in SimpleConditions \cup OddConditions \cup ChainedConditions}
  \cup StatusAlerts \cup StructuredAlerts \cup TimedAlerts \cup IdentifiedAlerts

MetricSegments == {<<"a">>, <<"b", "1">>, <<"c", "_", "d">>}

RECURSIVE MetricsOf(_)
\* the metric names of n dot-separated segments
MetricsOf(n) ==
  IF n = 1 THEN MetricSegments
  ELSE {m \o <<".">> \o seg : m \in MetricsOf(n - 1), seg \in MetricSegments}

Metrics == UNION {MetricsOf(n) : n \in 1..MaxMetricSegments}

\* the text before and after the selector: no function, or one function call
Wrappers ==
  {[pre |-> <<>>, post |-> <<>>],
   [pre |-> <<"a","v","g","(">>, post |-> <<")">>],
   [pre |-> <<"S","U","M","(">>, post |-> <<")">>],
   [pre |-> <<"r","a","t","e","(">>, post |-> <<")">>],
   [pre |-> <<"m","a","v","g","(","5","m",","," ">>, post |-> <<")">>],
   [pre |-> <<"p","e","r","c","e","n","t","i","l","e","(","9","5",","," ">>, post |-> <<")">>],
   [pre |-> <<"a","l","i","a","s","M","e","t","r","i","c","(">>,
    post |-> <<","," ","\"","n",".","x","\"",")">>]}

TagFragments ==
  {<<>>,
   <<","," ","e","n","v","=","\"","p","\"">>,
   <<","," ","d","c","=","\"","x",".","y","\"",","," ","e","n","v","=","\"","p","\"">>}

\* an expression with exactly one selector
Expression(w, metric, tags) ==
  w.pre \o <<"t","s","(">> \o metric \o tags \o <<")">> \o w.post

\* expressions in which ts_pattern finds nothing: no ts( at all, an empty or
\* unclosed ts(, upper case TS(, a blank inside the metric
NoSelectorExpressions ==
  {<<>>,
   <<"c","p","u"," ","h","i","g","h">>,
   <<"t","s","(",")">>,
   <<"t","s","(","m">>,
   <<"T","S","(","m",")">>,
   <<"s","u","m","(","c","p","u",".","l","o","a","d",")">>,
   <<"t","s","(","m",",",")">>,
   <<"t","s","(","a"," ","b",")">>}

\* the text around the selector when two functions are nested, or when the
\* function is one that Wrappers lacks
NestedWrappers ==
  {[pre |-> <<"s","u","m","(","m","a","v","g","(","5","m",","," ">>, post |-> <<")",")">>],
   [pre |-> <<"m","a","v","g","(","5","m",","," ","a","v","g","(">>, post |-> <<")",")">>],
   [pre |-> <<"m","a","x","(","r","a","t","e","(">>, post |-> <<")",")">>],
   [pre |-> <<"l","a","s","t","(","m","i","n","(">>, post |-> <<")",")">>],
   [pre |-> <<"c","o","u","n","t","(","s","t","d","d","e","v","(">>, post |-> <<")",")">>],
   [pre |-> <<"d","e","r","i","v","(">>, post |-> <<")">>],
   [pre |-> <<"L","A","S","T","(">>, post |-> <<")">>],
   [pre |-> <<"p","e","r","c","e","n","t","i","l","e","(","s","u","m","(">>, post |-> <<")",")">>],
   [pre |-> <<"A","v","g","(">>, post |-> <<")">>],
   [pre |-> <<"M","A","X","(">>, post |-> <<")">>],
   [pre |-> <<"M","i","n","(">>, post |-> <<")">>]}

NestedExpressions ==
  {Expression(w, m, tg) : w \in NestedWrappers, m \in MetricsOf(1), tg \in TagFragments}

\* tag fragments as they stand between the comma and the closing parenthesis
RawFragments ==
  {<<"e","n","v","=","\"","p","\"">>,
   <<"d","c","=","\"","x",".","y","\"",","," ","e","n","v","=","\"","p","\"">>,
   <<"e","n","v","=","\"","p","\"",",","d","c","=","\"","q","\"">>,
   <<"e","n","v","=","\"","p","\"",","," ","e","n","v","=","\"","q","\"">>,
   <<"e","n","v","=","p">>,
   <<"e","n","v","=","\"","p","\""," ","a","n","d"," ","d","c","=","\"","q","\"">>}

\* the selector ts(m, F) of a raw tag fragment F
FragmentSelector(fragment) == <<"t","s","(","m",","," ">> \o fragment \o <<")">>

FragmentExpressions == {FragmentSelector(f) : f \in RawFragments}

Expressions ==
  {Expression(w, m, tg) : w \in Wrappers, m \in Metrics, tg \in TagFragments}
  \cup NoSelectorExpressions \cup NestedExpressions \cup FragmentExpressions

(***************************************************************************)
(* The state machines                                                      *)
(***************************************************************************)
\* what a call of build_alert leaves behind: the rule or the exception, and the steps
Outcome == [raised |-> raised, data |-> data, alert_rule |-> alert_rule]

BuilderIdle ==
  /\ wf_alert = FreeTextAlert(<<>>, NoStatus)
  /\ datasource_type = "prometheus"
  /\ pc = "idle"
  /\ queries = <<>>
  /\ threshold_info = DefaultThreshold
  /\ data = <<>>
  /\ alert_rule = NoRule
  /\ raised = ""
  /\ previous = Outcome

TranslatorIdle ==
  /\ wql_query = <<>>
  /\ target = "prometheus"
  /\ translated = <<>>
  /\ tpc = "idle"

MigratorIdle ==
  /\ alerts = <<>>
  /\ folder_uid = ""
  /\ alert_index = 1
  /\ success_count = 0
  /\ failed_alerts = <<>>
  /\ processed = <<>>
  /\ import_calls = <<>>
  /\ mpc = "idle"

ParallelIdle ==
  /\ records = <<>>
  /\ frames = <<>>
  /\ overlapped = FALSE

DashboardIdle ==
  /\ wf_dashboard = <<>>
  /\ dpc = "idle"
  /\ panels = <<>>
  /\ panel_id_counter = 1

DeleterIdle ==
  /\ uids = <<>>
  /\ store = {}
  /\ uid_index = 1
  /\ xpc = "idle"
  /\ results = <<>>
  /\ returns = <<>>
  /\ requests = <<>>

FolderIdle ==
  /\ grafana_rules = <<>>
  /\ rules_before = <<>>
  /\ folder_name = ""
  /\ alert_rules = <<>>
  /\ rule_index = 1
  /\ deleted_count = 0
  /\ deletions = <<>>
  /\ fpc = "idle"

ToolsIdle == ParallelIdle /\ DashboardIdle /\ DeleterIdle /\ FolderIdle

\* a builder of any datasource type about to translate any alert record
Init ==
  /\ wf_alert \in AlertRecords
  /\ datasource_type \in DataSourceType
  /\ pc = "call"
  /\ queries = <<>>
  /\ threshold_info = DefaultThreshold
  /\ data = <<>>
  /\ alert_rule = NoRule
  /\ raised = ""
  /\ previous = Outcome
  /\ TranslatorIdle
  /\ MigratorIdle
  /\ ToolsIdle

\* one call of build_alert, from entry to return or raise: the first call on
\* the record, or a second call of the same builder on the same record.  The
\* call assigns neither the builder's fields nor the record.
BuildAlert ==
  /\ pc \in {"call", "done"}
  /\ \E r \in {build_alert(wf_alert, datasource_type)} :
         /\ queries' = r.queries
         /\ threshold_info' = r.threshold_info
         /\ data' = r.data
         /\ alert_rule' = r.alert_rule
         /\ raised' = r.raised
  /\ previous' = Outcome
  /\ pc' = IF pc = "call" THEN "done" ELSE "again"
  /\ UNCHANGED <<wf_alert, datasource_type, translatorVars, migrateVars, toolVars>>

Next == BuildAlert

Spec == Init /\ [][Next]_vars

\* a call of QueryTranslator.translate on any expression for any target
InitTranslate ==
  /\ BuilderIdle
  /\ wql_query \in Expressions
  /\ target \in DataSourceType
  /\ translated = <<>>
  /\ tpc = "call"
  /\ MigratorIdle
  /\ ToolsIdle

\* one call of QueryTranslator.translate
Translate ==
  /\ tpc = "call"
  /\ translated' = translate(wql_query, target)
  /\ tpc' = "done"
  /\ UNCHANGED <<wql_query, target, builderVars, migrateVars, toolVars>>

NextTranslate == Translate

SpecTranslate == InitTranslate /\ [][NextTranslate]_vars

\* the largest number of alerts of a batch
MaxBatch == 3

\* a record that translates, one whose translation raises UnboundLocalError
\* and one whose translation raises ValueError
BatchAlerts ==
  {FreeTextAlert(<<"t","s","(","m",")"," ",">"," ","5">>, NoStatus),
   FreeTextAlert(<<"t","s","(","m",")"," ",">"," ","5"," ","A","N","D"," ",
                   "t","s","(","m",")"," ",">"," ","5">>, NoStatus),
   FreeTextAlert(<<"t","s","(","m",")"," ",">"," ","1",".","2",".","3">>, NoStatus)}

Batches == UNION {[1..n -> BatchAlerts] : n \in 0..MaxBatch}

\* migrate_alerts has fetched the alerts to migrate
InitMigrate ==
  /\ BuilderIdle
  /\ TranslatorIdle
  /\ alerts \in Batches
  /\ folder_uid = ""
  /\ alert_index = 1
  /\ success_count = 0
  /\ failed_alerts = <<>>
  /\ processed = <<>>
  /\ import_calls = <<>>
  /\ mpc = "start"
  /\ ToolsIdle

\* migrate_alerts up to the loop: it returns when there is no alert, and when
\* get_or_create_folder gives no UID
GetFolder ==
  /\ mpc = "start"
  /\ IF alerts = <<>>
     THEN mpc' = "end" /\ UNCHANGED folder_uid
     ELSE \E uid \in {"", "folder-uid"} :
            /\ folder_uid' = uid
            /\ mpc' = IF uid = "" THEN "end" ELSE "loop"
  /\ UNCHANGED <<alerts, alert_index, success_count, failed_alerts, processed, import_calls,
                 builderVars, translatorVars, toolVars>>

\* what writing the alert's JSON file and import_alert_rule can do
SaveResults == {"saved", "OSError"}

ImportResults == {"imported", "rejected", "raised"}

\* one iteration of the loop that stops the loop when the alert fails
ProcessAlert_AbortsBatch ==
  /\ mpc = "loop"
  /\ alert_index <= Len(alerts)
  /\ processed' = Append(processed, alert_index)
  /\ \E r \in {build_alert(alerts[alert_index], datasource_type)},
        save \in SaveResults, import \in ImportResults :
        IF r.raised # "" \/ save = "OSError"
        THEN /\ failed_alerts' = Append(failed_alerts, alert_index)
             /\ mpc' = "end"
             /\ UNCHANGED <<success_count, import_calls>>
        ELSE /\ import_calls' = Append(import_calls, alert_index)
             /\ mpc' = "loop"
             /\ IF import = "imported"
                THEN success_count' = success_count + 1 /\ UNCHANGED failed_alerts
                ELSE failed_alerts' = Append(failed_alerts, alert_index)
                     /\ UNCHANGED success_count
  /\ alert_index' = alert_index + 1
  /\ UNCHANGED <<alerts, folder_uid, builderVars, translatorVars, toolVars>>

\* one iteration of the loop over alerts, from try to the end of except:
\* build_alert, the JSON file, import_alert_rule; failed_alerts holds the
\* places of the failed alerts in the batch
ProcessAlert ==
  /\ mpc = "loop"
  /\ alert_index <= Len(alerts)
  /\ processed' = Append(processed, alert_index)
  /\ \E r \in {build_alert(alerts[alert_index], datasource_type)},
        save \in SaveResults, import \in ImportResults :
        IF r.raised # "" \/ save = "OSError"
        THEN /\ failed_alerts' = Append(failed_alerts, alert_index)
             /\ UNCHANGED <<success_count, import_calls>>
        ELSE /\ import_calls' = Append(import_calls, alert_index)
             /\ IF import = "imported"
                THEN success_count' = success_count + 1 /\ UNCHANGED failed_alerts
                ELSE failed_alerts' = Append(failed_alerts, alert_index)
                     /\ UNCHANGED success_count
  /\ alert_index' = alert_index + 1
  /\ UNCHANGED <<alerts, folder_uid, mpc, builderVars, translatorVars, toolVars>>

\* the loop has run out of alerts: the summary is logged and migrate_alerts returns
FinishMigration ==
  /\ mpc = "loop"
  /\ alert_index > Len(alerts)
  /\ mpc' = "end"
  /\ UNCHANGED <<alerts, folder_uid, alert_index, success_count, failed_alerts, processed,
                 import_calls, builderVars, translatorVars, toolVars>>

NextMigrate == GetFolder \/ ProcessAlert \/ FinishMigration

SpecMigrate == InitMigrate /\ [][NextMigrate]_vars

(***************************************************************************)
(* Several calls of build_alert on one builder, their steps interleaved    *)
(***************************************************************************)
\* the calls in flight
Workers == {1, 2}

\* records given to the calls: one that translates, the same with another id,
\* one with another duration, one without condition, one whose translation
\* raises UnboundLocalError and one whose translation raises ValueError
ParallelRecords ==
  BatchAlerts
  \cup {IdentifiedAlert(<<"2">>),
        TimedAlert(<<"t","s","(","a",".","b",")"," ","<"," ","3">>, 90),
        FreeTextAlert(<<>>, NoStatus)}

\* the locals of a call of build_alert at its entry
EntryFrame ==
  [phase |-> "entry", condition |-> <<>>, queries |-> <<>>,
   threshold_info |-> DefaultThreshold, reducer_type |-> "", data |-> <<>>,
   current_ref |-> "", i |-> 0, raised |-> "", alert_rule |-> NoRule]

\* the locals of every call in which the calls share theirs
Frame_Shared(w) == 1

\* where the locals of call w live: every call of build_alert has its own
\* condition, queries, threshold_info, reducer_type, data and alert_rule
Frame(w) == w

\* one step of build_alert on the record alert with the locals f: the parse
\* of the condition, the steps of the first query, one iteration of the loop
\* over the other queries, the use of alert_rule after the loop, or the rule
StepFrame(f, alert, dst) ==
  CASE f.phase = "entry" ->
         LET parsed == _parse_wavefront_condition(ConditionOf(alert))
         IN  IF parsed.raised # ""
             THEN [f EXCEPT !.phase = "done", !.raised = parsed.raised]
             ELSE [f EXCEPT !.phase = "primary",
                            !.condition = ConditionOf(alert),
                            !.queries = parsed.queries,
                            !.threshold_info = parsed.threshold_info,
                            !.reducer_type = _determine_reducer_type(ConditionOf(alert))]
    [] f.phase = "primary" ->
         IF f.queries = <<>>
         THEN [f EXCEPT !.phase = "rule"]
         ELSE [f EXCEPT !.threshold_info = EntryThreshold(f.queries[1], f.threshold_info),
                        !.data = PrimarySteps(f.queries,
                                              EntryThreshold(f.queries[1], f.threshold_info),
                                              f.reducer_type, dst),
                        !.current_ref = IF Len(f.queries) > 1 THEN "C" ELSE "",
                        !.i = 1,
                        !.phase = IF Len(f.queries) > 1 THEN "loop" ELSE "rule"]
    [] f.phase = "loop" ->
         IF f.i + 1 > Len(f.queries)
         THEN [f EXCEPT !.phase = "done", !.raised = "UnboundLocalError"]
         ELSE [f EXCEPT !.data = @ \o AdditionalSteps(f.condition, f.queries, f.threshold_info,
                                                      f.reducer_type, dst, f.i, f.current_ref),
                        !.current_ref = Chr(71 + f.i * 3),
                        !.i = @ + 1]
    [] f.phase = "rule" ->
         [f EXCEPT !.alert_rule = AlertRule(alert, f.data), !.phase = "done"]

\* one builder, and a call of build_alert entered for each of two records
InitParallel ==
  /\ wf_alert = FreeTextAlert(<<>>, NoStatus)
  /\ datasource_type \in DataSourceType
  /\ pc = "idle"
  /\ queries = <<>>
  /\ threshold_info = DefaultThreshold
  /\ data = <<>>
  /\ alert_rule = NoRule
  /\ raised = ""
  /\ previous = Outcome
  /\ TranslatorIdle
  /\ MigratorIdle
  /\ records \in [Workers -> ParallelRecords]
  /\ frames = [w \in Workers |-> EntryFrame]
  /\ overlapped = FALSE
  /\ DashboardIdle
  /\ DeleterIdle
  /\ FolderIdle

\* the call w takes its next step; the builder's fields are read, not written
BuildStep(w) ==
  /\ frames[Frame(w)].phase # "done"
  /\ frames' = [frames EXCEPT ![Frame(w)] = StepFrame(@, records[w], datasource_type)]
  /\ overlapped' = (overlapped \/ \E other \in Workers \ {w} :
                                     frames[other].phase \notin {"entry", "done"})
  /\ UNCHANGED <<records, builderVars, translatorVars, migrateVars, dashboardVars,
                 deleteVars, folderVars>>

NextParallel == \E w \in Workers : BuildStep(w)

SpecParallel == InitParallel /\ [][NextParallel]_vars

(***************************************************************************)
(* GrafanaDashboardBuilder.build_dashboard: the grid of the panels         *)
(***************************************************************************)
\* the largest number of sections, rows and charts of a dashboard, together
MaxItems == 7

\* a dashboard written flat, in the order of its JSON: a section with a name,
\* a section whose name is empty, a row, a chart
Items == {"named", "unnamed", "row", "chart"}

ItemLists == UNION {[1..n -> Items] : n \in 0..MaxItems}

\* a row lies in a section and a chart in a row
WellNested(items) ==
  \A k \in DOMAIN items :
    /\ k = 1 => items[k] \in {"named", "unnamed"}
    /\ (k > 1 /\ items[k] = "chart") => items[k - 1] \in {"row", "chart"}

\* the dashboard d with one more section, row or chart at its end
WithItem(d, item) ==
  CASE item = "named" -> Append(d, [named |-> TRUE, rows |-> <<>>])
    [] item = "unnamed" -> Append(d, [named |-> FALSE, rows |-> <<>>])
    [] item = "row" -> [d EXCEPT ![Len(d)].rows = Append(@, 0)]
    [] item = "chart" -> [d EXCEPT ![Len(d)].rows[Len(d[Len(d)].rows)] = @ + 1]

RECURSIVE Nested(_, _)
\* the sections of the dashboard: a section is whether section.get('name',
\* 'Section') is a non-empty string, and its rows; a row is its number of charts
Nested(d, items) ==
  IF items = <<>> THEN d ELSE Nested(WithItem(d, Head(items)), Tail(items))

Dashboards == {Nested(<<>>, items) : items \in {l \in ItemLists : WellNested(l)}}

\* the panel of _create_text_panel(text, y) when the counter is id
_create_text_panel(y, id) ==
  [type |-> "text", id |-> id, h |-> 2, w |-> 24, x |-> 0, y |-> y]

\* the panel of _convert_chart_to_panel(chart, x, y) when the counter is id
_convert_chart_to_panel(x, y, id) ==
  [type |-> "chart", id |-> id, h |-> 8, w |-> Min({12, 24 - x}), x |-> x, y |-> y]

\* a test of the end of the grid row that lets x_pos reach the 24th column
Wraps_Late(x_pos) == x_pos > 24

\* if x_pos >= 24: the grid row is full
Wraps(x_pos) == x_pos >= 24

\* the body of the loop over the charts of a row; st holds
\* the panels appended so far, x_pos, y_pos and the panel_id_counter
PlaceChart(st) ==
  LET panel == _convert_chart_to_panel(st.x_pos, st.y_pos, st.counter)
  IN  [panels |-> Append(st.panels, panel),
       x_pos |-> IF Wraps(st.x_pos + panel.w) THEN 0 ELSE st.x_pos + panel.w,
       y_pos |-> IF Wraps(st.x_pos + panel.w) THEN st.y_pos + 8 ELSE st.y_pos,
       counter |-> st.counter + 1]

RECURSIVE PlaceCharts(_, _)
\* for chart in charts, n charts being left
PlaceCharts(st, n) ==
  IF n = 0 THEN st ELSE PlaceCharts(PlaceChart(st), n - 1)

\* the body of the loop over the rows of a section: x_pos = 0, the charts,
\* and y_pos moved past the row when it has content
PlaceRow(st, charts) ==
  LET after == PlaceCharts([st EXCEPT !.x_pos = 0], charts)
  IN  IF after.x_pos > 0 THEN [after EXCEPT !.y_pos = @ + 8] ELSE after

RECURSIVE PlaceRows(_, _)
PlaceRows(st, rows) ==
  IF rows = <<>> THEN st ELSE PlaceRows(PlaceRow(st, Head(rows)), Tail(rows))

\* the body of the loop over the sections: the header when the section has
\* a name, then the rows
PlaceSection(st, section) ==
  PlaceRows(IF section.named
            THEN [st EXCEPT !.panels = Append(@, _create_text_panel(st.y_pos, st.counter)),
                            !.y_pos = @ + 2,
                            !.counter = @ + 1]
            ELSE st,
            section.rows)

RECURSIVE PlaceSections(_, _)
PlaceSections(st, sections) ==
  IF sections = <<>> THEN st
  ELSE PlaceSections(PlaceSection(st, Head(sections)), Tail(sections))

\* build_dashboard: the panels of the dashboard and the counter after the call
build_dashboard(dashboard, counter) ==
  PlaceSections([panels |-> <<>>, x_pos |-> 0, y_pos |-> 0, counter |-> counter], dashboard)

\* a new dashboard builder about to convert any dashboard
InitDashboard ==
  /\ BuilderIdle
  /\ TranslatorIdle
  /\ MigratorIdle
  /\ ParallelIdle
  /\ wf_dashboard \in Dashboards
  /\ dpc = "call"
  /\ panels = <<>>
  /\ panel_id_counter = 1
  /\ DeleterIdle
  /\ FolderIdle

\* one call of build_dashboard
BuildDashboard ==
  /\ dpc = "call"
  /\ \E r \in {build_dashboard(wf_dashboard, panel_id_counter)} :
         /\ panels' = r.panels
         /\ panel_id_counter' = r.counter
  /\ dpc' = "done"
  /\ UNCHANGED <<wf_dashboard, builderVars, translatorVars, migrateVars, parallelVars,
                 deleteVars, folderVars>>

NextDashboard == BuildDashboard

SpecDashboard == InitDashboard /\ [][NextDashboard]_vars

(***************************************************************************)
(* delete-alerts.py: delete_alerts, delete_alert and get_alert against a   *)
(* Grafana server whose rules another actor may delete at any moment       *)
(***************************************************************************)
\* the largest number of uids handed to delete_alerts
MaxUids == 3

UidNames == {"u1", "u2"}

UidLists == UNION {[1..n -> UidNames] : n \in 0..MaxUids}

\* what the GET of a rule can give: its status code, or "failed" when
\* requests raises without an answer; the server answers 200 with the rule
\* when it holds it and 404 when it does not
GetAnswers(present) == (IF present THEN {"200"} ELSE {"404"}) \cup {"500", "failed"}

\* what the DELETE of a rule can give; the server answers 404 for a rule it
\* does not hold, the case of the branch "Alert UID not found (delete)"
DeleteAnswers(present) ==
  (IF present THEN {"200", "202", "204"} ELSE {"404"}) \cup {"500", "failed"}

\* what get_alert returns to delete_alert: the rule, or None
get_alert(answer) == IF answer = "200" THEN "rule" ELSE "None"

\* a test of get_alert's result that lets every uid through
Exists_Unchecked(alert) == TRUE

\* if not self.get_alert(uid): return False
Exists(alert) == alert # "None"

\* if r.status_code in (200, 202, 204): return True; every other status and
\* an exception of requests give False
Deleted(answer) == answer \in {"200", "202", "204"}

\* results[uid] = value
Stored(dict, uid, value) ==
  [u \in DOMAIN dict \cup {uid} |-> IF u = uid THEN value ELSE dict[u]]

\* delete_alerts is called with any list of uids, the server holding any of them
InitDelete ==
  /\ BuilderIdle
  /\ TranslatorIdle
  /\ MigratorIdle
  /\ ParallelIdle
  /\ DashboardIdle
  /\ uids \in UidLists
  /\ store \in SUBSET UidNames
  /\ uid_index = 1
  /\ xpc = "get"
  /\ results = <<>>
  /\ returns = <<>>
  /\ requests = <<>>
  /\ FolderIdle

\* delete_alert up to its DELETE request: get_alert sends the GET, and when
\* it gives no rule delete_alert returns False and delete_alerts stores that
GetAlert ==
  /\ xpc = "get"
  /\ uid_index <= Len(uids)
  /\ \E answer \in GetAnswers(uids[uid_index] \in store) :
        /\ requests' = Append(requests, [call |-> uid_index, method |-> "GET",
                                         uid |-> uids[uid_index], answer |-> answer,
                                         present |-> uids[uid_index] \in store])
        /\ IF Exists(get_alert(answer))
           THEN /\ xpc' = "delete"
                /\ UNCHANGED <<uid_index, results, returns>>
           ELSE /\ xpc' = "get"
                /\ returns' = Append(returns, FALSE)
                /\ results' = Stored(results, uids[uid_index], FALSE)
                /\ uid_index' = uid_index + 1
  /\ UNCHANGED <<uids, store, builderVars, translatorVars, migrateVars, parallelVars,
                 dashboardVars, folderVars>>

\* the rest of delete_alert: the DELETE request and the value returned for
\* its answer, which delete_alerts stores.  The server removes the rule when
\* it answers 200, 202 or 204; a request that fails without an answer may
\* have removed it or not.
DeleteRequest ==
  /\ xpc = "delete"
  /\ \E answer \in DeleteAnswers(uids[uid_index] \in store) :
        /\ requests' = Append(requests, [call |-> uid_index, method |-> "DELETE",
                                         uid |-> uids[uid_index], answer |-> answer,
                                         present |-> uids[uid_index] \in store])
        /\ returns' = Append(returns, Deleted(answer))
        /\ results' = Stored(results, uids[uid_index], Deleted(answer))
        /\ \/ Deleted(answer) /\ store' = store \ {uids[uid_index]}
           \/ answer = "failed" /\ store' = store \ {uids[uid_index]}
           \/ ~Deleted(answer) /\ store' = store
  /\ uid_index' = uid_index + 1
  /\ xpc' = "get"
  /\ UNCHANGED <<uids, builderVars, translatorVars, migrateVars, parallelVars, dashboardVars,
                 folderVars>>

\* the loop of delete_alerts has run out of uids: the summary is logged and
\* results is returned
FinishDeletion ==
  /\ xpc = "get"
  /\ uid_index > Len(uids)
  /\ xpc' = "end"
  /\ UNCHANGED <<uids, store, uid_index, results, returns, requests, builderVars,
                 translatorVars, migrateVars, parallelVars, dashboardVars, folderVars>>

\* another actor deletes a rule on the server while delete_alerts runs
OtherActorDeletes ==
  /\ xpc \in {"get", "delete"}
  /\ \E u \in store : store' = store \ {u}
  /\ UNCHANGED <<uids, uid_index, xpc, results, returns, requests, builderVars,
                 translatorVars, migrateVars, parallelVars, dashboardVars, folderVars>>

NextDelete == GetAlert \/ DeleteRequest \/ FinishDeletion \/ OtherActorDeletes

SpecDelete == InitDelete /\ [][NextDelete]_vars

(***************************************************************************)
(* GrafanaImporter.delete_alerts_by_folder                                 *)
(***************************************************************************)
\* the largest number of alert rules on the server; their uids are 1..MaxRules
MaxRules == 3

RuleUids == 1..MaxRules

\* the folderTitle of a rule: one of two folders, or none when the rule has
\* no such key
FolderTitles == {"folder-a", "folder-b", "None"}

\* what the server can hold: a folderTitle for each uid of a rule it has
RuleStores == UNION {[held -> FolderTitles] : held \in SUBSET RuleUids}

\* the JSON list of the rules of a store, in the order of their uids
Listing(held) ==
  LET position(u) == Cardinality({v \in DOMAIN held : v <= u})
  IN  [k \in 1..Cardinality(DOMAIN held) |->
         LET u == CHOOSE v \in DOMAIN held : position(v) = k
         IN  [uid |-> u, folderTitle |-> held[u]]]

\* the store without the rule uid
Without(held, uid) == [u \in DOMAIN held \ {uid} |-> held[u]]

\* a test of the folder that every rule passes
InFolder_Any(rule, name) == TRUE

\* if rule.get('folderTitle') == folder_name
InFolder(rule, name) == rule.folderTitle = name

\* what the DELETE of delete_alert_rule can give: a status code, or "failed"
\* when requests raises without an answer
DeleteRuleAnswers == {"204", "404", "500", "failed"}

\* delete_alert_rule returns True when raise_for_status() does not raise
Succeeded(answer) == answer = "204"

\* delete_alerts_by_folder is called for a folder on a server holding any rules
InitFolder ==
  /\ BuilderIdle
  /\ TranslatorIdle
  /\ MigratorIdle
  /\ ParallelIdle
  /\ DashboardIdle
  /\ DeleterIdle
  /\ grafana_rules \in RuleStores
  /\ rules_before = grafana_rules
  /\ folder_name \in {"folder-a", "folder-b"}
  /\ alert_rules = <<>>
  /\ rule_index = 1
  /\ deleted_count = 0
  /\ deletions = <<>>
  /\ fpc = "list"

\* get_alert_rules: the list of all rules, or [] when the request fails
GetAlertRules ==
  /\ fpc = "list"
  /\ \E answer \in {"200", "500", "failed"} :
        alert_rules' = IF answer = "200" THEN Listing(grafana_rules) ELSE <<>>
  /\ fpc' = "loop"
  /\ UNCHANGED <<grafana_rules, rules_before, folder_name, rule_index, deleted_count,
                 deletions, builderVars, translatorVars, migrateVars, parallelVars,
                 dashboardVars, deleteVars>>

\* one iteration of the loop over alert_rules: a rule of the folder is
\* deleted with delete_alert_rule and counted when that returns True.  The
\* server removes the rule when it answers 204; a request that fails without
\* an answer may have removed it or not.
VisitRule ==
  /\ fpc = "loop"
  /\ rule_index <= Len(alert_rules)
  /\ IF InFolder(alert_rules[rule_index], folder_name)
     THEN \E answer \in DeleteRuleAnswers :
            /\ deletions' = Append(deletions, [uid |-> alert_rules[rule_index].uid,
                                               answer |-> answer])
            /\ deleted_count' = IF Succeeded(answer) THEN deleted_count + 1
                                 ELSE deleted_count
            /\ \/ Succeeded(answer)
                  /\ grafana_rules' = Without(grafana_rules, alert_rules[rule_index].uid)
               \/ answer = "failed"
                  /\ grafana_rules' = Without(grafana_rules, alert_rules[rule_index].uid)
               \/ ~Succeeded(answer) /\ grafana_rules' = grafana_rules
     ELSE UNCHANGED <<grafana_rules, deleted_count, deletions>>
  /\ rule_index' = rule_index + 1
  /\ UNCHANGED <<rules_before, folder_name, alert_rules, fpc, builderVars, translatorVars,
                 migrateVars, parallelVars, dashboardVars, deleteVars>>

\* the loop has run out of rules: the count is logged and returned
FinishFolder ==
  /\ fpc = "loop"
  /\ rule_index > Len(alert_rules)
  /\ fpc' = "end"
  /\ UNCHANGED <<grafana_rules, rules_before, folder_name, alert_rules, rule_index,
                 deleted_count, deletions, builderVars, translatorVars, migrateVars,
                 parallelVars, dashboardVars, deleteVars>>

NextFolder == GetAlertRules \/ VisitRule \/ FinishFolder

SpecFolder == InitFolder /\ [][NextFolder]_vars

(***************************************************************************)
(* Properties                                                              *)
(***************************************************************************)
\* the ComparisonOp that the specification assigns to a source comparator
ComparisonOp(op) ==
  CASE op = <<">">> -> "gt"
    [] op = <<">", "=">> -> "gte"
    [] op = <<"<">> -> "lt"
    [] op = <<"<", "=">> -> "lte"
    [] op = <<"=">> -> "eq"
    [] op = <<"=", "=">> -> "eq"
    [] op = <<"!", "=">> -> "neq"

\* the number a decimal literal denotes
LiteralValue(lit) == FloatValue(lit)

\* build_alert has ended, by a return or by a raise
Done == pc = "done"

\* build_alert has returned a rule
Returned == pc = "done" /\ raised = ""

NodeIndexes == 1..Len(data)

KindIndexes(kind) == {k \in NodeIndexes : data[k].kind = kind}

\* C1: for a condition made of one ts() selector, one comparator and one
\* numeric literal, the parser yields one sub-query and one threshold whose
\* operator is the ComparisonOp of the comparator and whose literal is the
\* source literal.
C1_OneSelectorOneThreshold ==
  \A sel \in Selectors, op \in Comparators, lit \in NumericLiterals :
    (Done /\ ConditionOf(wf_alert) = SimpleCondition(sel, op, lit))
      => /\ raised = ""
         /\ Len(queries) = 1
         /\ threshold_info.operator = ComparisonOp(op)
         /\ threshold_info.value = LiteralValue(lit)

\* C2: for a condition with one selector and one comparator+literal the node
\* list is Query A, Reduce B reducing A, Threshold C comparing B, and the
\* condition of the rule is the refId of the Threshold node.
C2_ThreeNodeChain ==
  \A sel \in Selectors, op \in Comparators, lit \in NumericLiterals :
    (Done /\ ConditionOf(wf_alert) = SimpleCondition(sel, op, lit))
      => /\ raised = ""
         /\ alert_rule.data = data
         /\ Len(data) = 3
         /\ data[1].kind = "query" /\ data[1].refId = "A"
         /\ data[2].kind = "reduce" /\ data[2].refId = "B"
         /\ data[2].expression = <<"A">>
         /\ data[3].kind = "threshold" /\ data[3].refId = "C"
         /\ data[3].expression = <<"B">>
         /\ alert_rule.condition = data[3].refId

\* a rule was returned for ts(m) >= 10 and its condition is the third node
C2_Witness ==
  /\ Returned
  /\ ConditionOf(wf_alert) = SimpleCondition(<<"t","s","(","m",")">>, <<">", "=">>, <<"1", "0">>)
  /\ Len(data) = 3
  /\ alert_rule.condition = "C"

\* C3: a returned rule's condition is the refId of a Threshold node of its
\* data if there is one, else the refId of its last Query node; a rule whose
\* condition names no node of its data is never produced.
C3_ConditionNamesNode ==
  Returned =>
    /\ alert_rule.data = data
    /\ IF KindIndexes("threshold") # {}
       THEN \E k \in KindIndexes("threshold") : alert_rule.condition = data[k].refId
       ELSE /\ KindIndexes("query") # {}
            /\ alert_rule.condition = data[Max(KindIndexes("query"))].refId

\* C4: every refId of a node list is one uppercase letter and no two nodes
\* of a list share a refId.
C4_RefIdsUnique ==
  /\ \A k \in NodeIndexes : data[k].refId \in Range(UpperLetters)
  /\ \A j, k \in NodeIndexes : j # k => data[j].refId # data[k].refId

\* the refIds that follow a "$" in the expression of a Math node
MathRefs(expression) ==
  {expression[p + 1] : p \in {q \in 1..(Len(expression) - 1) : expression[q] = "$"}}

\* the upstream references of a node
UpstreamRefs(node) ==
  IF node.kind \in {"reduce", "threshold"} THEN {node.expression[1]}
  ELSE IF node.kind = "math" THEN MathRefs(node.expression)
  ELSE {}

\* C5: every upstream reference of a node names the refId of a node that
\* stands strictly earlier in the list.
C5_UpstreamEarlier ==
  \A k \in NodeIndexes :
    \A ref \in UpstreamRefs(data[k]) : \E j \in 1..(k - 1) : data[j].refId = ref

\* a list with two Math nodes, each combining two earlier nodes, was built
C5_Witness ==
  /\ Done
  /\ Cardinality(KindIndexes("math")) = 2
  /\ \A k \in KindIndexes("math") : Cardinality(UpstreamRefs(data[k])) = 2

\* C6: build_alert never raises for a record whose condition is a string,
\* and a rule is returned.
C6_NeverRaises ==
  (Done /\ wf_alert.hasCondition) => (raised = "" /\ alert_rule # NoRule)

\* the status holds the silencing marker, whatever its letter case
IsSilenced(status) ==
  \E n \in 1..Len(status.items) :
    Upper(status.items[n]) = <<"S","N","O","O","Z","E","D">>

\* C7: for a record whose status is or contains SNOOZED the builder returns
\* nothing: no rule and no node.
C7_SnoozedSkipped ==
  (Done /\ IsSilenced(wf_alert.status)) =>
    (raised = "" /\ alert_rule = NoRule /\ data = <<>>)

\* C8: for alertSources [{name: X, query: ts(m)}] and conditions
\* {severe: ${X} > 10} the graph has a Threshold node gt 10 whose upstream
\* reference is the refId of the node of X, and the condition of the rule is
\* the refId of that Threshold node.
C8_StructuredThreshold ==
  (Done /\ wf_alert = StructuredX) =>
    /\ raised = ""
    /\ \E k \in KindIndexes("threshold") :
         /\ data[k].evaluator = [type |-> "gt", params |-> <<LiteralValue(<<"1", "0">>)>>]
         /\ \E j \in KindIndexes("query") : data[k].expression = <<data[j].refId>>
         /\ alert_rule.condition = data[k].refId

\* C9: for a structured record whose sub-query refers to a name declared
\* later or never, the build does not raise and the referring Math or
\* Threshold node resolves to the zero literal.
C9_ForwardReferenceZero ==
  (Done /\ wf_alert \in {ForwardReference, UndeclaredReference}) =>
    /\ raised = ""
    /\ \E k \in KindIndexes("math") \cup KindIndexes("threshold") :
         data[k].expression = <<"0">>

\* the selector of the expression names the metric
HasSelector(wql, metric) ==
  \/ Contains(wql, <<"t","s","(">> \o metric \o <<")">>)
  \/ Contains(wql, <<"t","s","(">> \o metric \o <<",">>)

\* the metric with an underscore in place of every dot
Underscored(metric) ==
  [i \in 1..Len(metric) |-> IF metric[i] = "." THEN "_" ELSE metric[i]]

\* the identifiers of a text: its maximal runs of metric characters
Identifiers(text) ==
  {SubSeq(text, i, SkipClass(text, i, MetricChar) - 1) :
     i \in {n \in 1..Len(text) : /\ text[n] \in MetricChar
                                  /\ (n = 1 \/ text[n - 1] \notin MetricChar)}}

\* C10: for an expression with a selector ts(a.b.c) the PromQL translation
\* uses the identifier a_b_c, every dot replaced by an underscore, and the
\* InfluxQL translation uses the measurement a.b.c, dots preserved.
C10_MetricDots ==
  \A metric \in Metrics :
    (tpc = "done" /\ HasSelector(wql_query, metric)) =>
      /\ target = "prometheus" => Underscored(metric) \in Identifiers(translated)
      /\ target = "influxdb" =>
           Contains(translated, <<" ","F","R","O","M"," ","\"">> \o metric \o <<"\"", " ">>)

\* avg(ts(a.b1.c_d, env="p")) was translated to PromQL with the metric a_b1_c_d
C10_Witness ==
  /\ tpc = "done"
  /\ target = "prometheus"
  /\ HasSelector(wql_query, <<"a",".","b","1",".","c","_","d">>)
  /\ Contains(Lower(wql_query), <<"a","v","g","(">>)
  /\ Contains(translated, <<"a","v","g","(","a","_","b","1","_","c","_","d","{">>)

\* the number and the unit of a duration string
DurationNumber(text) == DigitsToNat(SubSeq(text, 1, Len(text) - 1))

DurationUnit(text) == text[Len(text)]

\* C11: the duration string of a minute count m is m followed by "m" for
\* m < 60, floor(m/60) followed by "h" for 60 <= m < 1440 and floor(m/1440)
\* followed by "d" for m >= 1440; 5, 90, 1500, 59, 60, 1439 and 1440 give 5m,
\* 1h, 1d, 59m, 1h, 23h and 1d; the number is never rounded up.
C11_DurationFloor ==
  \A m \in MinuteCounts :
    (Returned /\ wf_alert.minutes = m) =>
      LET text == alert_rule.for
          n    == DurationNumber(text)
          unit == DurationUnit(text)
      IN  /\ text = NatToDigits(n) \o <<unit>>
          /\ m < 60 => (unit = "m" /\ n = m)
          /\ (60 <= m /\ m < 1440) => (unit = "h" /\ n * 60 <= m /\ m < (n + 1) * 60)
          /\ m >= 1440 => (unit = "d" /\ n * 1440 <= m /\ m < (n + 1) * 1440)
          /\ m = 5 => text = <<"5", "m">>
          /\ m = 90 => text = <<"1", "h">>
          /\ m = 1500 => text = <<"1", "d">>
          /\ m = 59 => text = <<"5", "9", "m">>
          /\ m = 60 => text = <<"1", "h">>
          /\ m = 1439 => text = <<"2", "3", "h">>
          /\ m = 1440 => text = <<"1", "d">>

\* a rule was returned for an alert of 1439 minutes, one minute short of a day
C11_Witness ==
  /\ Returned
  /\ wf_alert.minutes = 1439
  /\ alert_rule.for = <<"2", "3", "h">>

Occurrences(s, x) == Cardinality({k \in 1..Len(s) : s[k] = x})

\* C13: once migrate_alerts has the folder, it ends only after every alert
\* of the batch was processed exactly once, in order, whatever failed on the
\* way: each alert was either handed to import_alert_rule once or recorded as
\* failed, and no alert was handed to it twice.
C13_BatchNeverAborted ==
  /\ mpc = "loop" => processed = [k \in 1..(alert_index - 1) |-> k]
  /\ (mpc = "end" /\ folder_uid # "") =>
       /\ processed = [k \in 1..Len(alerts) |-> k]
       /\ \A k \in 1..Len(alerts) :
            /\ Occurrences(import_calls, k) <= 1
            /\ Occurrences(import_calls, k) = 1 \/ Occurrences(failed_alerts, k) = 1
       /\ success_count + Len(failed_alerts) = Len(alerts)

\* a batch of three ended: the first alert raised, the second was rejected
\* by the importer and the third was imported
C13_Witness ==
  /\ mpc = "end"
  /\ Len(alerts) = 3
  /\ build_alert(alerts[1], datasource_type).raised # ""
  /\ failed_alerts = <<1, 2>>
  /\ import_calls = <<2, 3>>
  /\ success_count = 1

\* C14: for an expression in which no ts() selector is found, translate
\* returns for PromQL and for InfluxQL a text that is marked TODO, is no
\* translation and holds the whole expression; for every expression and
\* every target translate returns a non-empty text.
C14_PlaceholderForNoSelector ==
  tpc = "done" =>
    /\ translated # <<>>
    /\ (wql_query \in NoSelectorExpressions /\ target \in {"prometheus", "influxdb"}) =>
         /\ ~TsSelectorSearch(wql_query).found
         /\ Contains(translated, <<"T","O","D","O",":">>)
         /\ Contains(translated, wql_query)
         /\ translated[1] \in {"#", "-"}
         /\ ~Contains(translated, <<"S","E","L","E","C","T">>)

\* the unclosed ts(m was handed to the InfluxQL translation
C14_Witness ==
  /\ tpc = "done"
  /\ target = "influxdb"
  /\ wql_query = <<"t","s","(","m">>
  /\ Contains(translated, <<"T","O","D","O",":">>)

\* the place of the Query node at index k among the Query nodes of data
QueryRank(k) == Cardinality({j \in KindIndexes("query") : j <= k})

\* C15: a node has datasourceUid "__expr__" exactly when it is a Reduce,
\* Threshold or Math node; a Query node has the builder's datasource uid and
\* carries the translation of its sub-query in expr, query being empty, for
\* PromQL and in query, expr being empty, for InfluxQL.
C15_DatasourceIdentity ==
  \A k \in NodeIndexes :
    /\ data[k].datasourceUid = "__expr__" <=> data[k].kind \in {"reduce", "threshold", "math"}
    /\ data[k].kind = "query" =>
         LET text == translate(queries[QueryRank(k)].query, datasource_type)
         IN  /\ data[k].datasourceUid = datasource_uid
             /\ text # <<>>
             /\ datasource_type = "prometheus" => (data[k].expr = text /\ data[k].query = <<>>)
             /\ datasource_type = "influxdb" => (data[k].query = text /\ data[k].expr = <<>>)

\* a rule for InfluxQL was returned: its Query node holds a SELECT in query,
\* and its Reduce and Threshold nodes are expression nodes
C15_Witness ==
  /\ Returned
  /\ datasource_type = "influxdb"
  /\ Len(alert_rule.data) = 3
  /\ Contains(alert_rule.data[1].query, <<"S","E","L","E","C","T">>)
  /\ alert_rule.data[2].datasourceUid = "__expr__"
  /\ alert_rule.data[3].datasourceUid = "__expr__"

\* the AND/OR tokens of a condition, in order
LogicalTokens(condition) == SelectSeq(SplitAndOr(condition), IsAndOr)

\* && for AND, || for OR
LogicalSymbol(token) ==
  IF Upper(token) = <<"A","N","D">> THEN <<"&", "&">> ELSE <<"|", "|">>

\* the place of the Math node at index k among the Math nodes of data
MathRank(k) == Cardinality({j \in KindIndexes("math") : j <= k})

\* C16: for a condition of n >= 2 segments joined by AND/OR build_alert
\* returns a rule in which every segment after the first adds a Query, a
\* Reduce and a Threshold node and then a Math node combining the terminal
\* refId of the chain so far (the first Threshold, or the previous Math node)
\* with the new Threshold's refId by && for AND and || for OR, and the
\* condition of the rule is the refId of the last Math node.
C16_CombinatorChain ==
  (Done /\ ConditionOf(wf_alert) \in ChainedConditions) =>
    /\ raised = ""
    /\ alert_rule.data = data
    /\ Len(data) = 3 + 4 * (Len(queries) - 1)
    /\ Cardinality(KindIndexes("math")) = Len(queries) - 1
    /\ \A k \in KindIndexes("math") :
         /\ k >= 7
         /\ data[k - 3].kind = "query"
         /\ data[k - 2].kind = "reduce"
         /\ data[k - 1].kind = "threshold"
         /\ data[k - 4].kind = IF MathRank(k) = 1 THEN "threshold" ELSE "math"
         /\ data[k].expression =
              <<"$", data[k - 4].refId, " ">>
              \o LogicalSymbol(LogicalTokens(ConditionOf(wf_alert))[MathRank(k)])
              \o <<" ", "$", data[k - 1].refId>>
    /\ KindIndexes("math") # {}
    /\ alert_rule.condition = data[Max(KindIndexes("math"))].refId

\* the segments of Segments that carry a comparator and a literal
ThresholdedSegments ==
  {[text |-> <<"t","s","(","m",")"," ",">"," ","5">>, operator |-> "gt", literal |-> <<"5">>],
   [text |-> <<"t","s","(","a",".","b",")"," ","<","="," ","1",".","5">>, operator |-> "lte", literal |-> <<"1", ".", "5">>]}

\* the segment of Segments that has a selector and no comparator
BareSegment == <<"m","a","x","(","t","s","(","m",")",")">>

\* C17: a segment with a selector and no comparator+literal of its own gets
\* the threshold parsed from the whole condition: in ts(a) AND ts(b) > 5, and
\* in max(ts(m)) joined to a thresholded segment, the first sub-query's
\* threshold is that of the other segment; only a condition without any
\* threshold gives > 0.
C17_SharedThreshold ==
  /\ (Done /\ ConditionOf(wf_alert) = <<"t","s","(","a",")"," ","A","N","D"," ","t","s","(","b",")"," ",">"," ","5">>) =>
       /\ Len(queries) = 2
       /\ EntryThreshold(queries[1], threshold_info)
            = [operator |-> "gt", value |-> LiteralValue(<<"5">>)]
  /\ \A j \in Joiners, seg \in ThresholdedSegments :
       (Done /\ ConditionOf(wf_alert) = BareSegment \o j \o seg.text) =>
         /\ Len(queries) = 2
         /\ EntryThreshold(queries[1], threshold_info)
              = [operator |-> seg.operator, value |-> LiteralValue(seg.literal)]
  /\ (Done /\ ConditionOf(wf_alert) = <<"t","s","(","m",")">>) =>
       /\ Len(queries) = 1
       /\ EntryThreshold(queries[1], threshold_info) = [operator |-> "gt", value |-> Zero]

\* the function keywords in their priority order, each with the PromQL
\* function of its transform
KeywordPriority ==
  <<[keyword |-> <<"m","a","v","g">>, function |-> <<"a","v","g","_","o","v","e","r","_","t","i","m","e">>],
    [keyword |-> <<"r","a","t","e">>, function |-> <<"r","a","t","e">>],
    [keyword |-> <<"p","e","r","c","e","n","t","i","l","e">>, function |-> <<"q","u","a","n","t","i","l","e">>],
    [keyword |-> <<"a","v","g">>, function |-> <<"a","v","g">>],
    [keyword |-> <<"s","u","m">>, function |-> <<"s","u","m">>],
    [keyword |-> <<"m","a","x">>, function |-> <<"m","a","x">>],
    [keyword |-> <<"m","i","n">>, function |-> <<"m","i","n">>],
    [keyword |-> <<"c","o","u","n","t">>, function |-> <<"c","o","u","n","t">>],
    [keyword |-> <<"s","t","d","d","e","v">>, function |-> <<"s","t","d","d","e","v">>],
    [keyword |-> <<"d","e","r","i","v">>, function |-> <<"d","e","r","i","v">>],
    [keyword |-> <<"l","a","s","t">>, function |-> <<"l","a","s","t","_","o","v","e","r","_","t","i","m","e">>]>>

\* the place in KeywordPriority of the first keyword that the expression
\* holds, whatever its letter case; 0 when it holds none
FirstKeyword(wql) ==
  LET present == {i \in 1..Len(KeywordPriority) :
                    Contains(Lower(wql), KeywordPriority[i].keyword \o <<"(">>)}
  IN  IF present = {} THEN 0 ELSE Min(present)

\* text is one call of the function fn around the selector: it opens with
\* fn( and has one parenthesis pair more than the selector
WrappedOnce(text, fn, selector) ==
  /\ StartsAt(text, 1, fn \o <<"(">>)
  /\ Contains(text, selector)
  /\ Occurrences(text, "(") = Occurrences(selector, "(") + 1
  /\ text[Len(text)] = ")"

\* C18: for an expression with a selector and no aliasMetric, the PromQL
\* translation is the bare selector or the bare selector inside one call, and
\* the call is the transform of the first keyword of the priority order that
\* the expression holds: no transform of a later keyword is applied.
C18_FirstKeywordOnly ==
  (/\ tpc = "done"
   /\ target = "prometheus"
   /\ TsSelectorSearch(wql_query).found
   /\ ~Contains(wql_query, <<"a","l","i","a","s","M","e","t","r","i","c","(">>)) =>
    LET selector == BarePromql(TsSelectorSearch(wql_query))
        first    == FirstKeyword(wql_query)
    IN  IF first = 0 THEN translated = selector
        ELSE \/ translated = selector
             \/ WrappedOnce(translated, KeywordPriority[first].function, selector)

\* C19: for a selector ts(m, F) the PromQL translation holds the raw tag
\* fragment F as it stands between the braces: m{F}.
C19_FragmentVerbatim ==
  \A f \in RawFragments :
    (tpc = "done" /\ target = "prometheus" /\ wql_query = FragmentSelector(f)) =>
      translated = <<"m", "{">> \o f \o <<"}">>

\* the wrappers whose function keyword has an upper-case letter
CasedWrappers ==
  {w \in Wrappers \cup NestedWrappers :
     /\ w.pre # Lower(w.pre)
     /\ ~Contains(w.pre, <<"a","l","i","a","s","M","e","t","r","i","c","(">>)}

\* the wrapper with its keyword in lower case
LowerWrapper(w) == [pre |-> Lower(w.pre), post |-> w.post]

\* C20: the letter case of the aggregation keyword does not change the
\* translation, in PromQL and in InfluxQL: SUM(ts(...)) translates as
\* sum(ts(...)) does.
C20_KeywordCaseIgnored ==
  \A w \in CasedWrappers, m \in Metrics, tg \in TagFragments :
    (/\ tpc = "done"
     /\ target \in {"prometheus", "influxdb"}
     /\ wql_query = Expression(w, m, tg)) =>
      translated = translate(Expression(LowerWrapper(w), m, tg), target)

\* the translated text that a Query node carries
QueryText(node) == IF node.expr # <<>> THEN node.expr ELSE node.query

\* C21: the Query node of a sub-query carries the translation of the
\* sub-query's whole expression, the function around the selector included:
\* for avg(ts(cpu.load, env="p")) >= 10 it is the translation of
\* avg(ts(cpu.load, env="p")), not that of ts(cpu.load, env="p").
C21_WholeExpressionTranslated ==
  \A sel \in Selectors, op \in Comparators, lit \in NumericLiterals :
    (/\ Done
     /\ datasource_type \in {"prometheus", "influxdb"}
     /\ ConditionOf(wf_alert) = SimpleCondition(sel, op, lit)) =>
      /\ KindIndexes("query") = {1}
      /\ QueryText(data[1]) = translate(sel, datasource_type)

\* the reducer names of Grafana
ReducerNames == {"mean", "sum", "max", "min", "count", "stdDev", "median", "first", "last"}

\* C22: the reducer of every Reduce node is a reducer name, inferred from
\* the text of the sub-query that the node reduces: in
\* avg(ts(a)) > 1 AND max(ts(b)) > 2 the first Reduce node has mean and the
\* second has max, and in max(ts(m)) AND ts(m) > 5 the second has last.
C22_ReducerPerSubQuery ==
  /\ \A k \in KindIndexes("reduce") : data[k].reducer \in ReducerNames
  /\ (Done /\ ConditionOf(wf_alert) = <<"a","v","g","(","t","s","(","a",")",")"," ",">"," ","1"," ","A","N","D"," ","m","a","x","(","t","s","(","b",")",")"," ",">"," ","2">>) =>
       /\ Cardinality(KindIndexes("reduce")) = 2
       /\ data[Min(KindIndexes("reduce"))].reducer = "mean"
       /\ data[Max(KindIndexes("reduce"))].reducer = "max"
  /\ (Done /\ ConditionOf(wf_alert) = <<"m","a","x","(","t","s","(","m",")",")"," ","A","N","D"," ","t","s","(","m",")"," ",">"," ","5">>) =>
       /\ Cardinality(KindIndexes("reduce")) = 2
       /\ data[Min(KindIndexes("reduce"))].reducer = "max"
       /\ data[Max(KindIndexes("reduce"))].reducer = "last"

\* C23: the k-th node of a node list has the k-th upper-case letter as its
\* refId, whatever was built before: A, B, C, D, ... with no gap and no repeat.
C23_RefIdsSequential ==
  \A k \in NodeIndexes : k <= 26 /\ data[k].refId = UpperLetters[k]

\* C24: the Threshold node of a condition selector comparator literal has
\* the comparator gt, gte, lt, lte, eq, eq, neq for >, >=, <, <=, =, ==, !=
\* and the literal as its number; a condition that is a selector alone has
\* a Threshold node gt 0.
C24_ThresholdMapping ==
  /\ \A sel \in Selectors, op \in Comparators, lit \in NumericLiterals :
       (Done /\ ConditionOf(wf_alert) = SimpleCondition(sel, op, lit)) =>
         /\ KindIndexes("threshold") = {3}
         /\ data[3].evaluator = [type |-> ComparisonOp(op), params |-> <<LiteralValue(lit)>>]
  /\ (Done /\ ConditionOf(wf_alert) = <<"t","s","(","m",")">>) =>
       /\ KindIndexes("threshold") = {3}
       /\ data[3].evaluator = [type |-> "gt", params |-> <<Zero>>]

\* C26: for each of the four datasource types every Query node carries the
\* text returned by translate in expr or in query; no Query node has both
\* fields empty.
C26_QueryTextCarried ==
  \A k \in KindIndexes("query") :
    LET text == translate(queries[QueryRank(k)].query, datasource_type)
    IN  /\ data[k].expr = text \/ data[k].query = text
        /\ ~(data[k].expr = <<>> /\ data[k].query = <<>>)

\* C27: two alert records with different ids get different uids.
C27_UidInjective ==
  \A other \in IdentifiedAlerts :
    (Returned /\ wf_alert \in IdentifiedAlerts /\ other.id # wf_alert.id) =>
      build_alert(other, datasource_type).alert_rule.uid # alert_rule.uid

\* what the call w has returned or raised
CallOutcome(w) ==
  [raised |-> frames[Frame(w)].raised, data |-> frames[Frame(w)].data,
   alert_rule |-> frames[Frame(w)].alert_rule]

\* what build_alert gives for the record of call w when it runs alone
AloneOutcome(w) ==
  LET r == build_alert(records[w], datasource_type)
  IN  [raised |-> r.raised, data |-> r.data, alert_rule |-> r.alert_rule]

\* C25: however the steps of the calls of build_alert on one builder are
\* interleaved, a call that has ended has returned or raised exactly what
\* build_alert gives for its record alone.
C25_CallsIndependent ==
  \A w \in Workers :
    frames[Frame(w)].phase = "done" => CallOutcome(w) = AloneOutcome(w)

\* both calls have ended after steps of one fell between steps of the other,
\* on different records, the first of which has given a rule
C25_Witness ==
  /\ \A w \in Workers : frames[w].phase = "done"
  /\ overlapped
  /\ records[1] # records[2]
  /\ frames[1].raised = ""
  /\ frames[1].data # <<>>

\* two panels have a grid cell in common
Overlap(p, q) ==
  /\ p.x < q.x + q.w
  /\ q.x < p.x + p.w
  /\ p.y < q.y + q.h
  /\ q.y < p.y + p.h

\* C28: in the dashboard build_dashboard returns, every chart panel has
\* 1 <= w <= 12, x >= 0 and x + w <= 24, every section header has x = 0 and
\* w = 24, and no two panels overlap.
C28_GridLayout ==
  dpc = "done" =>
    /\ \A k \in DOMAIN panels :
          IF panels[k].type = "chart"
          THEN /\ 1 <= panels[k].w /\ panels[k].w <= 12
               /\ panels[k].x >= 0
               /\ panels[k].x + panels[k].w <= 24
          ELSE panels[k].x = 0 /\ panels[k].w = 24
    /\ \A k, l \in DOMAIN panels : k < l => ~Overlap(panels[k], panels[l])

\* a dashboard of two sections with header, one of them with a row of three
\* charts, has been converted
C28_Witness ==
  /\ dpc = "done"
  /\ Len(wf_dashboard) = 2
  /\ \A k \in 1..2 : wf_dashboard[k].named
  /\ \E k \in 1..2 : \E r \in DOMAIN wf_dashboard[k].rows : wf_dashboard[k].rows[r] = 3
  /\ Len(panels) >= 5

\* the requests of the given method sent by the call c of delete_alert
RequestsOf(c, method) ==
  {k \in DOMAIN requests : requests[k].call = c /\ requests[k].method = method}

DeletedOfFolder ==
  {u \in DOMAIN rules_before :
     /\ rules_before[u] = folder_name
     /\ \E k \in DOMAIN deletions : deletions[k].uid = u /\ Succeeded(deletions[k].answer)}

\* C30: delete_alerts_by_folder sends a DELETE only for rules whose
\* folderTitle is folder_name, each at most once; every rule of another
\* folder is on the server as before; and the count returned is the number
\* of rules of the folder whose deletion succeeded.
C30_OtherFoldersUntouched ==
  /\ \A k \in DOMAIN deletions : rules_before[deletions[k].uid] = folder_name
  /\ \A k, l \in DOMAIN deletions : deletions[k].uid = deletions[l].uid => k = l
  /\ \A u \in DOMAIN rules_before :
        rules_before[u] # folder_name =>
          u \in DOMAIN grafana_rules /\ grafana_rules[u] = rules_before[u]
  /\ fpc = "end" => deleted_count = Cardinality(DeletedOfFolder)

\* the call has ended on a server with rules of the folder and of another
\* one, after a deletion that succeeded and one that did not
C30_Witness ==
  /\ fpc = "end"
  /\ deleted_count >= 1
  /\ \E k \in DOMAIN deletions : ~Succeeded(deletions[k].answer)
  /\ \E u \in DOMAIN rules_before : rules_before[u] \notin {folder_name, "None"}

====
